---- MODULE Spec2Model ----
(***************************************************************************)
(* Lowering of a dot (batched GEMM) to a Triton kernel:                    *)
(* TritonWrapper -> MatMul -> MatMulImpl of                                *)
(* xla/service/gpu/ir_emitter_triton.cc.                                   *)
(*                                                                         *)
(* Quantities the C++ code holds in int64_t (element counts, the output    *)
(* stride accumulator, the right-hand side of the grid-ceiling check) can  *)
(* exceed the integers of the model checker, so they are kept as "wide"    *)
(* numbers: little-endian sequences of base-2^15 limbs without leading     *)
(* zero limbs.  Quantities the code holds in int are plain integers, and   *)
(* an int product is formed as a wide number first so that a signed        *)
(* overflow is seen and not silently computed.                             *)
(***************************************************************************)
EXTENDS Integers, Sequences, FiniteSets, TLC

\* ------------------------------------------------------------------------
\* Wide (int64_t) arithmetic
\* ------------------------------------------------------------------------
LimbBase == 32768

RECURSIVE WideNorm(_)
\* drops the most significant zero limbs
WideNorm(s) ==
  IF s = <<>> THEN <<>>
  ELSE IF s[Len(s)] = 0 THEN WideNorm(SubSeq(s, 1, Len(s) - 1))
  ELSE s

\* the wide number of an integer 0 .. 2^31-1
Wide(n) ==
  WideNorm(<<n % LimbBase, (n \div LimbBase) % LimbBase,
             (n \div LimbBase) \div LimbBase>>)

RECURSIVE WideAddC(_, _, _)
WideAddC(a, b, carry) ==
  IF a = <<>> /\ b = <<>> THEN (IF carry = 0 THEN <<>> ELSE <<carry>>)
  ELSE LET x == IF a = <<>> THEN 0 ELSE Head(a)
           y == IF b = <<>> THEN 0 ELSE Head(b)
           s == x + y + carry
       IN  <<s % LimbBase>> \o
           WideAddC(IF a = <<>> THEN <<>> ELSE Tail(a),
                    IF b = <<>> THEN <<>> ELSE Tail(b),
                    s \div LimbBase)

WideAdd(a, b) == WideNorm(WideAddC(a, b, 0))

RECURSIVE WideMulLimb(_, _, _)
\* a times one limb d, plus carry
WideMulLimb(a, d, carry) ==
  IF a = <<>> THEN (IF carry = 0 THEN <<>> ELSE <<carry>>)
  ELSE LET p == Head(a) * d + carry
       IN  <<p % LimbBase>> \o WideMulLimb(Tail(a), d, p \div LimbBase)

RECURSIVE WideMul(_, _)
WideMul(a, b) ==
  IF b = <<>> \/ a = <<>> THEN <<>>
  ELSE WideAdd(WideNorm(WideMulLimb(a, Head(b), 0)),
               IF Tail(b) = <<>> THEN <<>>
               ELSE LET r == WideMul(a, Tail(b))
                    IN  IF r = <<>> THEN <<>> ELSE <<0>> \o r)

RECURSIVE WideLessFrom(_, _, _)
\* a < b for normalised numbers of equal length, compared from limb i down
WideLessFrom(a, b, i) ==
  IF i = 0 THEN FALSE
  ELSE IF a[i] # b[i] THEN a[i] < b[i]
  ELSE WideLessFrom(a, b, i - 1)

WideLess(a, b) ==
  IF Len(a) # Len(b) THEN Len(a) < Len(b) ELSE WideLessFrom(a, b, Len(a))

WideLeq(a, b) == ~WideLess(b, a)

\* INT_MAX of <climits>, and the wide numbers 2^31-1 and 2^32
INT_MAX == 2147483647
WideIntMax == Wide(INT_MAX)
FitsInt(w) == WideLeq(w, WideIntMax)

\* the integer of a wide number that fits an int
WideToInt(w) ==
  (IF Len(w) >= 1 THEN w[1] ELSE 0)
  + (IF Len(w) >= 2 THEN w[2] * LimbBase ELSE 0)
  + (IF Len(w) >= 3 THEN w[3] * LimbBase * LimbBase ELSE 0)

\* the low 32 bits of a wide number read as a two's-complement int
\* (what a wrapping 32-bit multiplication leaves)
WrapInt32(w) ==
  LET l1 == IF Len(w) >= 1 THEN w[1] ELSE 0
      l2 == IF Len(w) >= 2 THEN w[2] ELSE 0
      l3 == IF Len(w) >= 3 THEN w[3] ELSE 0
      low31 == l1 + l2 * LimbBase + (l3 % 2) * LimbBase * LimbBase
      bit31 == (l3 \div 2) % 2
  IN  IF bit31 = 0 THEN low31 ELSE (low31 - INT_MAX) - 1

\* ------------------------------------------------------------------------
\* Element types (TritonType) and their widths
\* ------------------------------------------------------------------------
SupportedTypes == {"F64", "F32", "F16", "BF16", "S64", "S32", "S16", "PRED", "S8"}

\* getIntOrFloatBitWidth of TritonType(t); PRED is treated as S8
BitWidth(t) ==
  CASE t = "F64" -> 64
    [] t = "F32" -> 32
    [] t = "F16" -> 16
    [] t = "BF16" -> 16
    [] t = "S64" -> 64
    [] t = "S32" -> 32
    [] t = "S16" -> 16
    [] t = "PRED" -> 8
    [] t = "S8" -> 8

\* Type TritonType(mlir::OpBuilder b, PrimitiveType t), lines 96-120
TritonType(t) ==
  CASE t = "F64" -> "f64"
    [] t = "F32" -> "f32"
    [] t = "F16" -> "f16"
    [] t = "BF16" -> "bf16"
    [] t = "S64" -> "i64"
    [] t = "S32" -> "i32"
    [] t = "S16" -> "i16"
    [] t = "PRED" -> "i8"
    [] t = "S8" -> "i8"

\* Type dot_ty, lines 514-522: the type dot() inputs are converted to
DotTy(lhs_ty, rhs_ty) ==
  IF lhs_ty = "f32" \/ rhs_ty = "f32" THEN "f32"
  ELSE IF lhs_ty = "bf16" \/ rhs_ty = "bf16" THEN "bf16"
  ELSE IF lhs_ty = "f16" \/ rhs_ty = "f16" THEN "f16"
  ELSE "f32"

\* the accumulator given the type of the dot() inputs
AccTy_Mutant(root_ty, dot_ty) == dot_ty

\* mlir::FloatType acc_ty, lines 534-535
AccTy(root_ty, dot_ty) ==
  IF root_ty = "f64" /\ dot_ty = "f64" THEN "f64" ELSE "f32"

\* ------------------------------------------------------------------------
\* Call inputs: tiling configuration, dot instruction with its fusion
\* analysis, device information
\* ------------------------------------------------------------------------
Config(bm, bn, bk, nw, ns, sk) ==
  [block_m |-> bm, block_n |-> bn, block_k |-> bk,
   num_warps |-> nw, num_stages |-> ns, split_k |-> sk]

BoolInt(b) == IF b THEN 1 ELSE 0

RECURSIVE WideProduct(_)
\* ShapeUtil::ElementsIn: the product of the dimensions, as int64_t
WideProduct(dims) ==
  IF dims = <<>> THEN Wide(1)
  ELSE WideMul(Wide(Head(dims)), WideProduct(Tail(dims)))

ElementsIn(shape) == WideProduct(shape)

IterEntry(c, s) == [count |-> c, stride |-> s]

\* A dot instruction as the upstream passes hand it over.  mode is "none",
\* "batch" (a batch dimension of size b on both operands) or "split" (the LHS
\* non-contracting dimension iterated as b x m).  variant is the output
\* layout ("row_major", "col_major") or a defect ("batch_mismatch": the RHS
\* batch dimension is one longer than the LHS one).  Dimension
\* indices are 0-based as in the source; sequences are 1-based.
\*   LHS [batch?, m, split_k?, k]   RHS [batch?, split_k?, k, n]
\*   OUT [split_k?, batch?, m, n]
Dot(m, n, k, mode, b, lt, rt, ot, sk, variant) ==
  LET split    == sk > 1
      batched  == mode = "batch" \/ variant = "batch_and_split"
      nc_split == mode = "split" \/ variant = "batch_and_split"
      m_full   == IF nc_split THEN m * b ELSE m
      bdim     == IF batched THEN <<b>> ELSE <<>>
      rhs_b    == IF variant = "batch_mismatch" THEN b + 1 ELSE b
      rhs_bdim == IF batched THEN <<rhs_b>> ELSE <<>>
      sdim     == IF split THEN <<sk>> ELSE <<>>
      lhs      == bdim \o <<m_full>> \o sdim \o <<k>>
      rhs      == rhs_bdim \o sdim \o <<k, n>>
      extra    == IF variant = "unclassified_out" THEN <<2>> ELSE <<>>
      out      == extra \o sdim \o bdim \o <<m_full, n>>
      r        == Len(out)
      major    == [i \in 1..(r - 2) |-> r - 2 - i]
      lhs_c    == Len(lhs) - 1
      rhs_c    == Len(rhs) - 2
  IN  [lhs_type |-> lt, rhs_type |-> rt, out_type |-> ot,
       lhs_shape |-> lhs, rhs_shape |-> rhs, out_shape |-> out,
       out_minor_to_major |->
         IF variant = "third_after_n" /\ r >= 3
           THEN <<r - 1, r - 3, r - 2>> \o [i \in 1..(r - 3) |-> r - 3 - i]
         ELSE IF variant = "third_minor_most" /\ r >= 3
           THEN <<r - 3, r - 1, r - 2>> \o [i \in 1..(r - 3) |-> r - 3 - i]
         ELSE (IF variant = "col_major" THEN <<r - 2, r - 1>>
               ELSE <<r - 1, r - 2>>) \o major,
       lhs_contracting_dimensions |->
         IF variant = "two_contracting" THEN <<lhs_c - 1, lhs_c>> ELSE <<lhs_c>>,
       rhs_contracting_dimensions |-> <<rhs_c>>,
       lhs_batch_dimensions |->
         (IF split THEN <<lhs_c - 1>> ELSE <<>>) \o (IF batched THEN <<0>> ELSE <<>>),
       rhs_batch_dimensions |->
         (IF split THEN <<rhs_c - 1>> ELSE <<>>) \o (IF batched THEN <<0>> ELSE <<>>),
       \* DotFusionAnalysis::IterSpec of each role's dimension
       lhs_nc_spec |->
         <<IterEntry(m, Wide(1))>> \o
         (IF nc_split THEN <<IterEntry(b, WideMul(Wide(m), Wide(k * sk)))>> ELSE <<>>),
       rhs_nc_spec |-> <<IterEntry(n, Wide(1))>>,
       lhs_k_spec |-> <<IterEntry(k, Wide(m))>>,
       rhs_k_spec |-> <<IterEntry(k, Wide(n))>>,
       lhs_batch_spec |->
         IF batched THEN <<IterEntry(b, WideMul(Wide(m_full), Wide(k * sk)))>> ELSE <<>>,
       rhs_batch_spec |->
         IF batched THEN <<IterEntry(rhs_b, WideMul(Wide(n), Wide(k * sk)))>> ELSE <<>>]

\* Sizes the calls are drawn from
SmallBatch == 20
LargeBatch == 70000
GeomM == {80, 1000, 30000}
GeomN == {48, 1000, 100000}
GeomK == {16, 1000, 100000}
BatchModes == {<<"none", 1>>, <<"batch", SmallBatch>>, <<"batch", LargeBatch>>,
               <<"split", SmallBatch>>, <<"split", LargeBatch>>}
Layouts == {"row_major", "col_major"}
Defects == {"two_contracting", "batch_and_split", "unclassified_out", "batch_mismatch"}

GeomConfigs == {Config(16, 16, 16, 4, 1, 1), Config(16, 16, 16, 4, 1, 2),
                Config(256, 16, 64, 4, 1, 1)}

TilingConfigs ==
  {Config(bm, bn, bk, 4, ns, sk) :
     bm \in {16, 256}, bn \in {16, 256}, bk \in {16, 64}, ns \in {1, 4}, sk \in {1, 2}}
  \cup {Config(160, 190, 16, 4, 1, 1), Config(169, 180, 16, 4, 1, 1),
        Config(173, 174, 17, 4, 1, 1),
        Config(128, 64, 64, 4, 6, 1), Config(16, 16, 8, 4, 1, 1)}

TypePairs == {<<"F16", "F16">>, <<"F16", "F32">>, <<"F32", "F32">>, <<"S8", "BF16">>}

\* GpuDeviceInfo::shared_memory_per_block_optin
SharedMemoryOptin == {34816, 98304, 232448}

Input(c, d, s) == [config |-> c, dot |-> d, shared_memory_per_block_optin |-> s]

GeomInputs ==
  {Input(c, Dot(m, n, k, bm[1], bm[2], "F16", "F16", "F32", c.split_k, l), 98304) :
     c \in GeomConfigs, m \in GeomM, n \in GeomN, k \in GeomK,
     bm \in BatchModes, l \in Layouts}

TilingInputs ==
  {Input(c, Dot(80, 48, 1000, "none", 1, t[1], t[2], "F32", c.split_k, "row_major"), s) :
     c \in TilingConfigs, t \in TypePairs, s \in SharedMemoryOptin}

DefectInputs ==
  {Input(c, Dot(80, 48, 1000, bm[1], bm[2], "F16", "F16", "F32", c.split_k, v), 98304) :
     c \in GeomConfigs \cup {Config(256, 256, 64, 4, 1, 1)},
     bm \in {<<"none", 1>>, <<"batch", SmallBatch>>}, v \in Defects}

Inputs == GeomInputs \cup TilingInputs \cup DefectInputs

\* ------------------------------------------------------------------------
\* MatMulImpl: operand and layout analysis with its CHECKs (lines 339-504)
\* ------------------------------------------------------------------------
HaveSplitK(config) == config.split_k > 1

\* const bool have_batch = dims.lhs_batch_dimensions_size() - have_split_k;
HaveBatch(dot, config) ==
  Len(dot.lhs_batch_dimensions) - BoolInt(HaveSplitK(config)) # 0

\* shape.dimensions(i) for a 0-based index i
Dimension(shape, i) == shape[i + 1]

LhsNcSplit(dot) == Len(dot.lhs_nc_spec) > 1

SplitKDimensionOk(dot, config) ==
  /\ dot.lhs_batch_dimensions[1] = dot.lhs_contracting_dimensions[1] - 1
  /\ dot.rhs_batch_dimensions[1] = dot.rhs_contracting_dimensions[1] - 1
  /\ config.split_k = Dimension(dot.lhs_shape, dot.lhs_contracting_dimensions[1] - 1)
  /\ config.split_k = Dimension(dot.rhs_shape, dot.rhs_contracting_dimensions[1] - 1)

MMinor(dot) == dot.lhs_nc_spec[1].count
NSize(dot) == dot.rhs_nc_spec[1].count

\* const int k = operand(0).dimensions(lhs_contracting) * split_k
KSize(dot, config) ==
  Dimension(dot.lhs_shape, dot.lhs_contracting_dimensions[1]) * config.split_k

BatchSize(dot, config) ==
  IF LhsNcSplit(dot) THEN dot.lhs_nc_spec[2].count
  ELSE IF HaveBatch(dot, config) THEN dot.lhs_batch_spec[1].count
  ELSE 1

StrideBatchLhs(dot, config) ==
  IF LhsNcSplit(dot) THEN dot.lhs_nc_spec[2].stride
  ELSE IF HaveBatch(dot, config) THEN dot.lhs_batch_spec[1].stride
  ELSE Wide(0)

StrideBatchRhs(dot, config) ==
  IF LhsNcSplit(dot) THEN Wide(0)
  ELSE IF HaveBatch(dot, config) THEN dot.rhs_batch_spec[1].stride
  ELSE Wide(0)

MFull(dot, config) ==
  IF LhsNcSplit(dot) THEN MMinor(dot) * BatchSize(dot, config) ELSE MMinor(dot)

\* the CHECK of line 407 left out
BatchAndSplit_Mutant(dot, config) == FALSE

\* CHECK_LE(have_batch + lhs_nc_split, 1) fails, line 407
BatchAndSplit(dot, config) ==
  BoolInt(HaveBatch(dot, config)) + BoolInt(LhsNcSplit(dot)) > 1

\* The CHECKs of lines 349-449 in source order: "" when all hold, else the
\* first one that fails.
OperandChecks(dot, config) ==
  IF Len(dot.lhs_contracting_dimensions) # 1 THEN "lhs_contracting_dimensions_size"
  ELSE IF Len(dot.rhs_contracting_dimensions) # 1 THEN "rhs_contracting_dimensions_size"
  ELSE IF HaveSplitK(config) /\ ~SplitKDimensionOk(dot, config) THEN "split_k_dimension"
  ELSE IF Len(dot.lhs_batch_dimensions) > 1 + BoolInt(HaveSplitK(config))
    THEN "lhs_batch_dimensions_size"
  ELSE IF Len(dot.lhs_shape) # 2 + BoolInt(HaveSplitK(config)) + BoolInt(HaveBatch(dot, config))
    THEN "lhs_rank"
  ELSE IF Len(dot.lhs_nc_spec) # 1 + BoolInt(LhsNcSplit(dot)) THEN "lhs_nc_spec_size"
  ELSE IF BatchAndSplit(dot, config) THEN "batch_and_split_noncontracting"
  ELSE IF Len(dot.rhs_nc_spec) # 1 THEN "rhs_nc_spec_size"
  ELSE IF Len(dot.lhs_k_spec) # 1 THEN "lhs_k_spec_size"
  ELSE IF /\ ~LhsNcSplit(dot)
          /\ HaveBatch(dot, config)
          /\ dot.lhs_batch_spec[1].count # dot.rhs_batch_spec[1].count
    THEN "batch_size_mismatch"
  ELSE ""

NoStrides ==
  [m |-> Wide(0), n |-> Wide(0), split_k |-> Wide(0), batch |-> Wide(0),
   accumulator |-> Wide(1), failed |-> ""]

RECURSIVE OutStrideWalk(_, _, _, _)
\* the loop over dot_instr->shape().layout().minor_to_major(), from position i
OutStrideWalk(dot, config, i, st) ==
  IF i > Len(dot.out_minor_to_major) \/ st.failed # "" THEN st
  ELSE
    LET rank            == Len(dot.out_shape)
        rhs_nc_out_idx  == rank - 1
        lhs_nc_out_idx  == rank - 2
        split_k_out_idx == IF HaveSplitK(config) THEN 0 ELSE -1
        batch_out_idx   == IF HaveBatch(dot, config)
                           THEN (IF HaveSplitK(config) THEN 1 ELSE 0) ELSE -1
        logical_idx     == dot.out_minor_to_major[i]
        dim_size        == Dimension(dot.out_shape, logical_idx)
        acc             == st.accumulator
        next            == WideMul(acc, Wide(dim_size))
        st1 ==
          IF logical_idx = rhs_nc_out_idx THEN
            IF dim_size # NSize(dot) THEN [st EXCEPT !.failed = "out_n_size"]
            ELSE [st EXCEPT !.n = acc]
          ELSE IF logical_idx = lhs_nc_out_idx THEN
            IF dim_size # MFull(dot, config) THEN [st EXCEPT !.failed = "out_m_size"]
            ELSE IF LhsNcSplit(dot)
              THEN [st EXCEPT !.m = acc, !.batch = WideMul(acc, Wide(MMinor(dot)))]
              ELSE [st EXCEPT !.m = acc]
          ELSE IF logical_idx = split_k_out_idx THEN
            IF dim_size # config.split_k THEN [st EXCEPT !.failed = "out_split_k_size"]
            ELSE [st EXCEPT !.split_k = acc]
          ELSE IF logical_idx = batch_out_idx THEN
            IF dim_size # BatchSize(dot, config) THEN [st EXCEPT !.failed = "out_batch_size"]
            ELSE [st EXCEPT !.batch = acc]
          ELSE [st EXCEPT !.failed = "unexpected_dimension"]
    IN  OutStrideWalk(dot, config, i + 1,
                      IF st1.failed # "" THEN st1 ELSE [st1 EXCEPT !.accumulator = next])

OutStrides(dot, config) == OutStrideWalk(dot, config, 1, NoStrides)

\* CHECK_GE(stride_out_m, 1) ... CHECK_GT(stride_out_batch, 1), lines 488-496
OutStrideChecks(dot, config, st) ==
  IF ~WideLeq(Wide(1), st.m) THEN "stride_out_m"
  ELSE IF ~WideLeq(Wide(1), st.n) THEN "stride_out_n"
  ELSE IF HaveSplitK(config) /\ ~WideLess(Wide(1), st.split_k) THEN "stride_out_split_k"
  ELSE IF (HaveBatch(dot, config) \/ LhsNcSplit(dot)) /\ ~WideLess(Wide(1), st.batch)
    THEN "stride_out_batch"
  ELSE ""

MinBlockSize == 16

\* CHECK_GE(block_m, 16) ..., lines 502-504
BlockChecks(config) ==
  IF config.block_m < MinBlockSize THEN "block_m"
  ELSE IF config.block_k < MinBlockSize THEN "block_k"
  ELSE IF config.block_n < MinBlockSize THEN "block_n"
  ELSE ""

\* The first CHECK of lines 349-504 that fails, "" when none does
FailedCheck(dot, config) ==
  IF OperandChecks(dot, config) # "" THEN OperandChecks(dot, config)
  ELSE IF OutStrides(dot, config).failed # "" THEN OutStrides(dot, config).failed
  ELSE IF OutStrideChecks(dot, config, OutStrides(dot, config)) # ""
    THEN OutStrideChecks(dot, config, OutStrides(dot, config))
  ELSE BlockChecks(config)

\* ceil(1.0 * a / b)
CeilDiv(a, b) == (a + b - 1) \div b

GridM(dot, config) == CeilDiv(MMinor(dot), config.block_m)
GridN(dot, config) == CeilDiv(NSize(dot), config.block_n)

\* ------------------------------------------------------------------------
\* MatMulImpl: resource checks and launch geometry (lines 524-558)
\* ------------------------------------------------------------------------
\* const int required_shmem_size, lines 524-526
RequiredShmemSize(dot, config) ==
  ((config.block_m * BitWidth(dot.lhs_type) + config.block_n * BitWidth(dot.rhs_type))
     * config.block_k * config.num_stages) \div 8

\* the comparison of line 527 written with >=
ShmemExceeded_Mutant(required_shmem_size, shmem_budget) == required_shmem_size >= shmem_budget

\* if (required_shmem_size > shmem_budget), line 527
ShmemExceeded(required_shmem_size, shmem_budget) == required_shmem_size > shmem_budget

ShmemMessage(required_shmem_size, shmem_budget) ==
  <<"Requires too much shared memory: %d > %d", required_shmem_size, shmem_budget>>

kBlockCountYZLimit == 65536

\* the batch never taken for large
LargeBatchDim_Mutant(batch_size) == FALSE

\* const bool large_batch = batch_size >= kBlockCountYZLimit;
LargeBatchDim(batch_size) == batch_size >= kBlockCountYZLimit

\* batch_size * grid_m * grid_n without the width of int
TileProduct(batch_size, grid_m, grid_n) ==
  WideMul(WideMul(Wide(batch_size), Wide(grid_m)), Wide(grid_n))

CeilingSquared == WideMul(Wide(kBlockCountYZLimit), Wide(kBlockCountYZLimit))

\* CHECK_LT(batch_size * grid_m * grid_n, kBlockCountYZLimit * kBlockCountYZLimit):
\* the left side is an int product, converted to int64_t for the comparison.
\* While the product fits an int the comparison is exact.  When it does not,
\* the signed overflow is undefined: a build that multiplies in 32 bits
\* compares the wrapped value, a build that widens the multiplication
\* compares the true product.  The set holds TRUE when the CHECK can pass
\* and FALSE when it can fail.
CeilingCheckOutcomes(batch_size, grid_m, grid_n) ==
  LET p       == TileProduct(batch_size, grid_m, grid_n)
      wrapped == WrapInt32(p)
  IN  IF FitsInt(p) THEN {WideLess(p, CeilingSquared)}
      ELSE {wrapped < 0 \/ WideLess(Wide(wrapped), CeilingSquared),
            WideLess(p, CeilingSquared)}

\* WarpSize() of the GPU backend
WarpSize == 32

\* the two branches of lines 556-557 exchanged
LaunchGrid_Mutant(batch_size, grid_m, grid_n, split_k) ==
  IF LargeBatchDim(batch_size)
    THEN <<grid_m * grid_n, batch_size, split_k>>
    ELSE <<batch_size, grid_m * grid_n, split_k>>

\* const LaunchDimensions launch_dimensions{...}, lines 555-558
LaunchGrid(batch_size, grid_m, grid_n, split_k) ==
  IF LargeBatchDim(batch_size)
    THEN <<batch_size, grid_m * grid_n, split_k>>
    ELSE <<grid_m * grid_n, batch_size, split_k>>

MakeLaunchDimensions(dot, config) ==
  [grid |-> LaunchGrid(BatchSize(dot, config), GridM(dot, config),
                       GridN(dot, config), config.split_k),
   block |-> <<config.num_warps * WarpSize, 1, 1>>,
   shared_mem_bytes |-> 0]

\* the three GetProgramIdOp created at lines 543-547, before the CHECK_LT
ProgramIdOps == <<"tt.get_program_id", "tt.get_program_id", "tt.get_program_id">>

\* the operations created at lines 560-777, in order of the statements
KernelBodyOps ==
  <<"group_id", "first_pid_m", "group_size", "pid_m", "range_m", "pid_n", "range_n",
    "range_k", "lhs_ptrs_base", "rhs_ptrs_base", "acc_init", "scf.for",
    "out_ptrs", "mask", "tt.store">>

\* ------------------------------------------------------------------------
\* MatMul: index width (lines 790-793)
\* ------------------------------------------------------------------------
\* the output count compared without the split_k factor
Use64BitIndexing_Mutant(dot, config) ==
  \/ ~FitsInt(ElementsIn(dot.lhs_shape))
  \/ ~FitsInt(ElementsIn(dot.rhs_shape))
  \/ ~FitsInt(ElementsIn(dot.out_shape))

\* narrow indexing whatever the element counts
Use64BitIndexing_Never(dot, config) == FALSE

Use64BitIndexing(dot, config) ==
  \/ ~FitsInt(ElementsIn(dot.lhs_shape))
  \/ ~FitsInt(ElementsIn(dot.rhs_shape))
  \/ ~FitsInt(WideMul(ElementsIn(dot.out_shape), Wide(config.split_k)))

\* ------------------------------------------------------------------------
\* TritonWrapper (lines 801-954)
\* ------------------------------------------------------------------------
kComplexityHeuristicLimit == 9000

ComplexityHeuristicValue(config) ==
  (config.block_m * config.block_n
     + (config.block_m + config.block_n) * config.block_k) \div config.num_warps

\* the comparison of line 835 written with >=
ComplexityExceeded_Mutant(value) == value >= kComplexityHeuristicLimit

\* if (complexity_heuristic_value > kComplexityHeuristicLimit), line 835
\* a heuristic that lets every tiling through
ComplexityExceeded_Never(value) == FALSE

ComplexityExceeded(value) == value > kComplexityHeuristicLimit

ComplexityMessage(value) ==
  <<"Tiling complexity heuristic exceeded: %d > %d", value, kComplexityHeuristicLimit>>

\* ResourceExhausted("Shared memory size limit exceeded."), line 938
MeasuredShmemMessage(shared_mem_bytes, limit) ==
  <<"Shared memory size limit exceeded.">>

\* if (shared_mem_bytes > device_info.shared_memory_per_block_optin), line 937
MeasuredShmemExceeded(shared_mem_bytes, limit) == shared_mem_bytes > limit

\* values of the "triton_gpu.shared" attribute the pipeline may leave
MeasuredShmem(limit) == {0, limit, limit + 1}

NoLaunch == [grid |-> <<>>, block |-> <<>>, shared_mem_bytes |-> 0]
NoCall == [config |-> Config(0, 0, 0, 0, 0, 0), dot |-> <<>>,
           shared_memory_per_block_optin |-> 0]
NoResult == [outcome |-> "none", status |-> "", message |-> <<>>,
             launch_dimensions |-> NoLaunch]

Returned(status, message, ld) ==
  [outcome |-> "returned", status |-> status, message |-> message,
   launch_dimensions |-> ld]

\* a failed CHECK or LOG(FATAL): the process is gone, nothing is returned
Aborted(check) ==
  [outcome |-> "aborted", status |-> "", message |-> <<check>>,
   launch_dimensions |-> NoLaunch]

\* the lowered module linked before the measured shared memory is compared
Integrate_Mutant(llvm, kernel, ld, shared_mem_bytes, limit) ==
  IF MeasuredShmemExceeded(shared_mem_bytes, limit)
    THEN [llvm_module |-> Append(llvm, kernel),
          result |-> Returned("ResourceExhausted",
                              MeasuredShmemMessage(shared_mem_bytes, limit), NoLaunch)]
    ELSE [llvm_module |-> Append(llvm, kernel),
          result |-> Returned("OK", <<>>,
                              [ld EXCEPT !.shared_mem_bytes = shared_mem_bytes])]

\* lines 932-953: the measured shared memory is compared with the limit and
\* only then is the lowered module linked into the caller's module
Integrate(llvm, kernel, ld, shared_mem_bytes, limit) ==
  IF MeasuredShmemExceeded(shared_mem_bytes, limit)
    THEN [llvm_module |-> llvm,
          result |-> Returned("ResourceExhausted",
                              MeasuredShmemMessage(shared_mem_bytes, limit), NoLaunch)]
    ELSE [llvm_module |-> Append(llvm, kernel),
          result |-> Returned("OK", <<>>,
                              [ld EXCEPT !.shared_mem_bytes = shared_mem_bytes])]

\* ------------------------------------------------------------------------
\* The kernel MatMulImpl emits (lines 560-777): the types and compile-time
\* constants its operations are built from.  Strides are IndexT values, kept
\* as wide numbers.
\* ------------------------------------------------------------------------
group_m == 8

FloatTypes == {"f64", "f32", "f16", "bf16"}
\* mlir::FloatType::getFPMantissaWidth
FPMantissaWidth(t) ==
  CASE t = "f64" -> 53 [] t = "f32" -> 24 [] t = "f16" -> 11 [] t = "bf16" -> 8

\* a cast that returns its operand
Cast_Mutant(src_element_ty, dst_element_ty) ==
  [ops |-> <<>>, type |-> src_element_ty]

\* lines 123-170: the conversion operations Cast emits and the element type
\* of its result
Cast(src_element_ty, dst_element_ty) ==
  IF src_element_ty = dst_element_ty THEN [ops |-> <<>>, type |-> src_element_ty]
  ELSE IF src_element_ty \in FloatTypes /\ dst_element_ty \in FloatTypes THEN
    IF {src_element_ty, dst_element_ty} = {"f16", "bf16"}
      THEN [ops |-> <<"arith.extf", "arith.truncf">>, type |-> dst_element_ty]
    ELSE IF FPMantissaWidth(src_element_ty) > FPMantissaWidth(dst_element_ty)
      THEN [ops |-> <<"arith.truncf">>, type |-> dst_element_ty]
    ELSE [ops |-> <<"arith.extf">>, type |-> dst_element_ty]
  ELSE IF src_element_ty \notin FloatTypes /\ dst_element_ty \in FloatTypes
    THEN [ops |-> <<"arith.sitofp">>, type |-> dst_element_ty]
  ELSE IF src_element_ty \in FloatTypes /\ dst_element_ty \notin FloatTypes
    THEN [ops |-> <<"arith.fptosi">>, type |-> dst_element_ty]
  ELSE [ops |-> <<"LOG(FATAL)">>, type |-> "none"]

\* an index left as the i32 it was computed in
ConvertIndex_Mutant(use_64bit, int_ty) == "i32"

\* lines 592-606: convert_scalar and convert_range sign-extend an i32 index
\* to int_ty when IndexT is int64_t and leave it unchanged otherwise
ConvertIndex(use_64bit, int_ty) == IF use_64bit THEN int_ty ELSE "i32"

\* the offset computations of the kernel: for each MulIOp the element type
\* of its index operand and of its stride constant; for the two pointer
\* increments the C++ type the product is computed in (int * int * IndexT)
\* and the type of the constant that holds it
OffsetOps(use_64bit, int_ty) ==
  LET idx == ConvertIndex(use_64bit, int_ty)
      IndexT == IF use_64bit THEN "i64" ELSE "i32"
  IN  {[name |-> nm, index_ty |-> idx, stride_ty |-> int_ty] :
         nm \in {"lhs_offset_m", "lhs_offset_k", "lhs_offset_batch",
                  "rhs_off_k", "rhs_offset_n", "rhs_offset_batch",
                  "out_offset_batch", "out_offset_split_k",
                  "out_offset_m", "out_offset_n"}}
      \cup
      {[name |-> nm, index_ty |-> IndexT, stride_ty |-> int_ty] :
         nm \in {"lhs_ptrs_inc", "rhs_ptrs_inc"}}

\* an integer multiplication in element type ty: exact in 64 bits (the
\* operands here stay far below 2^63), modulo 2^32 in 32 bits
MulI(ty, index, stride) ==
  LET p == WideMul(Wide(index), stride)
  IN  IF ty = "i64" \/ FitsInt(p)
        THEN [wrapped |-> FALSE, value |-> p, low32 |-> 0]
        ELSE [wrapped |-> TRUE, value |-> p, low32 |-> WrapInt32(p)]

\* an integer addition in element type ty (ma::AddIOp), as MulI
AddI(ty, a, b) ==
  LET p == WideAdd(a, b)
  IN  IF ty = "i64" \/ FitsInt(p)
        THEN [wrapped |-> FALSE, value |-> p, low32 |-> 0]
        ELSE [wrapped |-> TRUE, value |-> p, low32 |-> WrapInt32(p)]

KernelProgram(dot, config, use_64bit, allow_tf32) ==
  LET out == OutStrides(dot, config)
      lhs_ty == TritonType(dot.lhs_type)
      rhs_ty == TritonType(dot.rhs_type)
      root_ty == TritonType(dot.out_type)
      dot_ty == DotTy(lhs_ty, rhs_ty)
  IN  [int_ty |-> IF use_64bit THEN "i64" ELSE "i32",
       lhs_ty |-> lhs_ty, rhs_ty |-> rhs_ty, root_ty |-> root_ty,
       dot_ty |-> dot_ty, acc_ty |-> AccTy(root_ty, dot_ty),
       allowTF32 |-> allow_tf32,
       block_m |-> config.block_m, block_n |-> config.block_n,
       block_k |-> config.block_k, split_k |-> config.split_k,
       m_minor |-> MMinor(dot), n |-> NSize(dot), k |-> KSize(dot, config),
       grid_m |-> GridM(dot, config),
       width |-> group_m * GridN(dot, config),
       large_batch |-> LargeBatchDim(BatchSize(dot, config)),
       stride_lhs_m |-> dot.lhs_nc_spec[1].stride,
       stride_lhs_k |-> dot.lhs_k_spec[1].stride,
       stride_rhs_k |-> dot.rhs_k_spec[1].stride,
       stride_rhs_n |-> dot.rhs_nc_spec[1].stride,
       stride_batch_lhs |-> StrideBatchLhs(dot, config),
       stride_batch_rhs |-> StrideBatchRhs(dot, config),
       stride_out_m |-> out.m, stride_out_n |-> out.n,
       stride_out_split_k |-> out.split_k, stride_out_batch |-> out.batch,
       masked_loads |-> KSize(dot, config) % (config.block_k * config.split_k) > 0,
       offset_ops |-> OffsetOps(use_64bit, IF use_64bit THEN "i64" ELSE "i32"),
       casted_lhs_tile |-> Cast(lhs_ty, dot_ty),
       casted_rhs_tile |-> Cast(rhs_ty, dot_ty),
       stored_tile |-> Cast(AccTy(root_ty, dot_ty), root_ty)]

NoKernel == [int_ty |-> "none"]
NoPrevious == [call |-> NoCall, kernel_program |-> NoKernel,
               launch_dimensions |-> NoLaunch]
NoProgram == [stage |-> "none"]

\* ------------------------------------------------------------------------
\* What one program instance of the emitted kernel computes.  Pointers are
\* element offsets from the start of their buffer.  A tile is a function of
\* its lanes.
\* ------------------------------------------------------------------------
\* arith.divsi and arith.remsi: the quotient is truncated towards zero
DivSI(a, b) == IF a >= 0 THEN a \div b ELSE -((-a) \div b)
RemSI(a, b) == IF a >= 0 THEN a % b ELSE -((-a) % b)

\* lines 560-566
GroupId(kp, pid_nc) == DivSI(pid_nc, kp.width)
FirstPidM(kp, pid_nc) == GroupId(kp, pid_nc) * group_m

\* the group taken as full whatever is left of grid_m
GroupSize_Mutant(kp, pid_nc) == group_m

GroupSize(kp, pid_nc) ==
  LET sub0 == kp.grid_m - FirstPidM(kp, pid_nc)
  IN  IF sub0 < group_m THEN sub0 ELSE group_m

\* lines 608-609
PidM(kp, pid_nc) == FirstPidM(kp, pid_nc) + RemSI(pid_nc, GroupSize(kp, pid_nc))

\* pid_n taken from the position inside the group's row
PidN_Mutant(kp, pid_nc) == RemSI(DivSI(pid_nc, GroupSize(kp, pid_nc)), kp.width \div group_m)

\* lines 617-618
PidN(kp, pid_nc) == DivSI(RemSI(pid_nc, kp.width), GroupSize(kp, pid_nc))

\* lines 542-547 and the decode: pid is the (x, y, z) program id
DecodedProgram(kp, pid) ==
  LET pid_nc == IF kp.large_batch THEN pid[2] ELSE pid[1]
  IN  [stage |-> "decoded", pid |-> pid,
       pid_batch |-> IF kp.large_batch THEN pid[1] ELSE pid[2],
       pid_nc |-> pid_nc,
       pid_k |-> pid[3],
       pid_m |-> PidM(kp, pid_nc),
       pid_n |-> PidN(kp, pid_nc)]

Lanes(a, b) == (0 .. a - 1) \X (0 .. b - 1)

\* build_splat(pid * block, block) + build_range(block): lines 614, 621, 624
Range(pid, block) == [i \in 0 .. block - 1 |-> pid * block + i]

\* range_m without the remainder by m_minor
RangeLhsM_Mutant(kp, range_m) == range_m

\* line 631
RangeLhsM(kp, range_m) == [i \in DOMAIN range_m |-> RemSI(range_m[i], kp.m_minor)]

\* line 656
RangeRhsN(kp, range_n) == [i \in DOMAIN range_n |-> RemSI(range_n[i], kp.n)]

\* lines 632-648
LhsPtrsBase(kp, pid_batch, range_m, range_k) ==
  [l \in Lanes(kp.block_m, kp.block_k) |->
     pid_batch * WideToInt(kp.stride_batch_lhs)
     + RangeLhsM(kp, range_m)[l[1]] * WideToInt(kp.stride_lhs_m)
     + range_k[l[2]] * WideToInt(kp.stride_lhs_k)]

\* lines 650-669
RhsPtrsBase(kp, pid_batch, range_k, range_n) ==
  [l \in Lanes(kp.block_k, kp.block_n) |->
     pid_batch * WideToInt(kp.stride_batch_rhs)
     + range_k[l[1]] * WideToInt(kp.stride_rhs_k)
     + RangeRhsN(kp, range_n)[l[2]] * WideToInt(kp.stride_rhs_n)]

\* the comparison of the load mask written with sle
InTile_Mutant(range_k_i, elements_in_tile) == range_k_i <= elements_in_tile

\* CmpIPredicate::slt of range_k with elements_in_tile, lines 690, 697
InTile(range_k_i, elements_in_tile) == range_k_i < elements_in_tile

\* lines 684-703: lane i of range_k is loaded; with no mask every lane is
LoadMask(kp, range_k, ki) ==
  [i \in DOMAIN range_k |-> ~kp.masked_loads \/ InTile(range_k[i], kp.k - ki)]

\* mt::LoadOp: the element at an unmasked pointer, zeros_like where masked.
\* An element is known by its offset; <<>> is zero.
Load(ptr, mask) == IF mask THEN <<ptr>> ELSE <<>>

\* mt::DotOp: what one lane adds to its accumulator.  A product with a zero
\* is zero and adds nothing.
DotLane(lhs_tile, rhs_tile, block_k, r, c) ==
  SelectSeq([i \in 1 .. block_k |-> lhs_tile[<<r, i - 1>>] \o rhs_tile[<<i - 1, c>>]],
            LAMBDA t : Len(t) = 2)

\* the step without the split_k factor
PtrsInc_Mutant(kp, stride) == kp.block_k * WideToInt(stride)

\* block_k * config.split_k() * stride, lines 721, 725
PtrsInc(kp, stride) == kp.block_k * kp.split_k * WideToInt(stride)

\* lines 744-763
OutPtrs(kp, pid_batch, pid_k, range_m, range_n) ==
  [l \in Lanes(kp.block_m, kp.block_n) |->
     pid_batch * WideToInt(kp.stride_out_batch)
     + pid_k * WideToInt(kp.stride_out_split_k)
     + range_m[l[1]] * WideToInt(kp.stride_out_m)
     + range_n[l[2]] * WideToInt(kp.stride_out_n)]

\* the store guarded on the columns only
StoreMask_Mutant(kp, range_m, range_n) ==
  [l \in Lanes(kp.block_m, kp.block_n) |-> range_n[l[2]] < kp.n]

\* lines 766-774
StoreMask(kp, range_m, range_n) ==
  [l \in Lanes(kp.block_m, kp.block_n) |->
     range_m[l[1]] < kp.m_minor /\ range_n[l[2]] < kp.n]

\* the launch grid: its program ids, and the i-th of them with x fastest
NumPrograms(ld) == ld.grid[1] * ld.grid[2] * ld.grid[3]
ProgramIds(ld) ==
  (0 .. ld.grid[1] - 1) \X (0 .. ld.grid[2] - 1) \X (0 .. ld.grid[3] - 1)
ProgramOfIndex(ld, i) ==
  <<i % ld.grid[1], (i \div ld.grid[1]) % ld.grid[2], i \div (ld.grid[1] * ld.grid[2])>>

\* ------------------------------------------------------------------------
\* tpu_initializer_helper.cc: the processes and the lock file
\* ------------------------------------------------------------------------
\* processes that may load libtpu, and lock files that may be created
MaxProcs == 3
MaxInodes == 2
TpuProcs == 1 .. MaxProcs
\* the last process belongs to another user than the others
ProcUser(p) == IF p = MaxProcs THEN "other" ELSE "user"

\* getenv returned nullptr
Unset == "(unset)"
NoEnv == [TPU_LOAD_LIBRARY |-> Unset, ALLOW_MULTIPLE_LIBTPU_LOAD |-> Unset,
          TPU_CHIPS_PER_PROCESS_BOUNDS |-> Unset, TPU_CHIPS_PER_HOST_BOUNDS |-> Unset]
NoProc == [stage |-> "unstarted", env |-> NoEnv, library |-> "none", atexit |-> FALSE,
           fd |-> 0, lock_status |-> "none", struct_fns |-> "none",
           initialized |-> FALSE, registered |-> FALSE, status |-> "none"]
\* no file at /tmp/libtpu_lockfile; no inode created yet
NoLockFile == [path |-> 0, created |-> 0,
               owner |-> [i \in 1 .. MaxInodes |-> "none"],
               lockf |-> [i \in 1 .. MaxInodes |-> 0]]
NoPeerAccess == [stage |-> "idle", device_count |-> 0, map |-> <<>>, position |-> 0,
                 attempted |-> <<>>, status |-> "none"]

\* number of lowering calls of one run (an autotuner's retries)
MaxCalls == 2

VARIABLES
  pc,                  \* position inside TritonWrapper / MatMul / MatMulImpl
  call,                \* the inputs of the call in progress
  calls,               \* calls started so far
  use_64bit_indexing,  \* MatMul's choice of IndexT
  triton_module,       \* operations created so far, in order
  generator_invoked,   \* the generator (MatMul) was entered in this call
  launch_dimensions,   \* MatMulImpl's local launch_dimensions
  llvm_module,         \* kernels linked into the caller's llvm::Module
  llvm_module_at_call, \* llvm_module when the call started
  result,              \* what the caller gets
  tensor_float_32_execution, \* the process-wide flag of tsl, read at line 717
  kernel_program,      \* the kernel MatMulImpl emitted: its types and constants
  previous,            \* what the call before this one was given and emitted
  program,             \* the program instance (thread block) that is running
  programs_run,        \* program instances of the launch that have finished
  out_stores,          \* every element the launch has stored to the output
  tpu_procs,           \* the processes that load libtpu: position, environment, results
  tpu_fs,              \* /tmp/libtpu_lockfile: the inode at the path, owners, lockf holders
  peer                 \* Platform::EnablePeerAccess: the map, the position, the attempts

launch_vars == <<program, programs_run, out_stores>>
host_vars == <<tpu_procs, tpu_fs, peer>>

vars == <<pc, call, calls, use_64bit_indexing, triton_module, generator_invoked,
          launch_dimensions, llvm_module, llvm_module_at_call, result,
          tensor_float_32_execution, kernel_program, previous, launch_vars,
          host_vars>>

Init ==
  /\ pc = "idle"
  /\ call = NoCall
  /\ calls = 0
  /\ use_64bit_indexing = FALSE
  /\ triton_module = <<>>
  /\ generator_invoked = FALSE
  /\ launch_dimensions = NoLaunch
  /\ llvm_module = <<>>
  /\ llvm_module_at_call = <<>>
  /\ result = NoResult
  /\ tensor_float_32_execution = TRUE
  /\ kernel_program = NoKernel
  /\ previous = NoPrevious
  /\ program = NoProgram
  /\ programs_run = 0
  /\ out_stores = {}
  /\ tpu_procs = [p \in TpuProcs |-> NoProc]
  /\ tpu_fs = NoLockFile
  /\ peer = NoPeerAccess

\* The caller invokes TritonWrapper(fn_name, computation, cc, device_info,
\* config, llvm_module, generator, mlir_context).
Call(Ins) ==
  /\ pc = "idle"
  /\ calls < MaxCalls
  /\ \E i \in Ins : call' = i
  /\ calls' = calls + 1
  /\ pc' = "TritonWrapper"
  /\ use_64bit_indexing' = FALSE
  /\ triton_module' = <<>>
  /\ generator_invoked' = FALSE
  /\ launch_dimensions' = NoLaunch
  /\ llvm_module_at_call' = llvm_module
  /\ result' = NoResult
  /\ UNCHANGED llvm_module
  /\ kernel_program' = NoKernel
  /\ UNCHANGED <<tensor_float_32_execution, previous, launch_vars, host_vars>>

\* lines 829-839: the complexity heuristic rejects the tiling
ComplexityReject ==
  /\ pc = "TritonWrapper"
  /\ ComplexityExceeded(ComplexityHeuristicValue(call.config))
  /\ result' = Returned("ResourceExhausted",
                        ComplexityMessage(ComplexityHeuristicValue(call.config)),
                        NoLaunch)
  /\ pc' = "done"
  /\ UNCHANGED <<call, calls, use_64bit_indexing, triton_module, generator_invoked,
                 launch_dimensions, llvm_module, llvm_module_at_call>>
  /\ UNCHANGED <<tensor_float_32_execution, kernel_program, previous, launch_vars, host_vars>>

\* lines 841-873: the module and the kernel function are created
BuildKernelSignature ==
  /\ pc = "TritonWrapper"
  /\ ~ComplexityExceeded(ComplexityHeuristicValue(call.config))
  /\ triton_module' = <<"tt.func">>
  /\ pc' = "generator"
  /\ UNCHANGED <<call, calls, use_64bit_indexing, generator_invoked,
                 launch_dimensions, llvm_module, llvm_module_at_call, result>>
  /\ UNCHANGED <<tensor_float_32_execution, kernel_program, previous, launch_vars, host_vars>>

\* lines 875-878 and 783-799: the generator is MatMul, which picks IndexT;
\* MatMulImpl then runs its CHECKs (lines 339-504)
MatMul ==
  /\ pc = "generator"
  /\ generator_invoked' = TRUE
  /\ use_64bit_indexing' = Use64BitIndexing(call.dot, call.config)
  /\ IF FailedCheck(call.dot, call.config) # ""
       THEN /\ pc' = "aborted"
            /\ result' = Aborted(FailedCheck(call.dot, call.config))
       ELSE /\ pc' = "shmem_check"
            /\ UNCHANGED result
  /\ UNCHANGED <<call, calls, triton_module, launch_dimensions, llvm_module,
                 llvm_module_at_call>>
  /\ UNCHANGED <<tensor_float_32_execution, kernel_program, previous, launch_vars, host_vars>>

\* lines 524-530
ShmemCheck ==
  /\ pc = "shmem_check"
  /\ LET required == RequiredShmemSize(call.dot, call.config)
         budget   == call.shared_memory_per_block_optin
     IN  IF ShmemExceeded(required, budget)
           THEN /\ pc' = "done"
                /\ result' = Returned("ResourceExhausted",
                                      ShmemMessage(required, budget), NoLaunch)
           ELSE /\ pc' = "geometry"
                /\ UNCHANGED result
  /\ UNCHANGED <<call, calls, use_64bit_indexing, triton_module, generator_invoked,
                 launch_dimensions, llvm_module, llvm_module_at_call>>
  /\ UNCHANGED <<tensor_float_32_execution, kernel_program, previous, launch_vars, host_vars>>

\* lines 540-558: program ids, the grid-ceiling CHECK, the launch dimensions
Geometry ==
  /\ pc = "geometry"
  /\ triton_module' = triton_module \o ProgramIdOps
  /\ \E passes \in CeilingCheckOutcomes(BatchSize(call.dot, call.config),
                                        GridM(call.dot, call.config),
                                        GridN(call.dot, call.config)) :
       IF passes
         THEN /\ pc' = "emit"
              /\ launch_dimensions' = MakeLaunchDimensions(call.dot, call.config)
              /\ UNCHANGED result
         ELSE /\ pc' = "aborted"
              /\ result' = Aborted("block_count_limit")
              /\ UNCHANGED launch_dimensions
  /\ UNCHANGED <<call, calls, use_64bit_indexing, generator_invoked, llvm_module,
                 llvm_module_at_call>>
  /\ UNCHANGED <<tensor_float_32_execution, kernel_program, previous, launch_vars, host_vars>>

\* lines 560-778: the kernel body; MatMulImpl returns launch_dimensions and
\* TritonWrapper closes the function (line 880)
EmitKernel ==
  /\ pc = "emit"
  /\ triton_module' = triton_module \o KernelBodyOps \o <<"tt.return">>
  /\ pc' = "pipeline"
  /\ UNCHANGED <<call, calls, use_64bit_indexing, generator_invoked,
                 launch_dimensions, llvm_module, llvm_module_at_call, result>>
  /\ kernel_program' = KernelProgram(call.dot, call.config, use_64bit_indexing,
                                      tensor_float_32_execution)
  /\ UNCHANGED <<tensor_float_32_execution, previous, launch_vars, host_vars>>

\* lines 881-953: the pass pipeline runs and leaves its shared-memory use;
\* the module is linked unless that exceeds the limit
Pipeline ==
  /\ pc = "pipeline"
  /\ \E shared \in MeasuredShmem(call.shared_memory_per_block_optin) :
       LET r == Integrate(llvm_module, calls, launch_dimensions, shared,
                          call.shared_memory_per_block_optin)
       IN  /\ llvm_module' = r.llvm_module
           /\ result' = r.result
  /\ pc' = "done"
  /\ UNCHANGED <<call, calls, use_64bit_indexing, triton_module, generator_invoked,
                 launch_dimensions, llvm_module_at_call>>
  /\ UNCHANGED <<tensor_float_32_execution, kernel_program, previous, launch_vars, host_vars>>

\* CHECK(mlir::succeeded(mlir::verify(...))), CHECK(mlir::succeeded(pm.run(...))),
\* CHECK(!llvm::Linker::linkModules(...)): lines 881, 926, 950
PipelineAbort ==
  /\ pc = "pipeline"
  /\ pc' = "aborted"
  /\ result' = Aborted("pipeline")
  /\ UNCHANGED <<call, calls, use_64bit_indexing, triton_module, generator_invoked,
                 launch_dimensions, llvm_module, llvm_module_at_call>>
  /\ UNCHANGED <<tensor_float_32_execution, kernel_program, previous, launch_vars, host_vars>>

\* TritonWrapper has returned; the caller may call again.  p is what the
\* caller remembers of the call.
ReturnWith(p) ==
  /\ pc = "done"
  /\ pc' = "idle"
  /\ call' = NoCall
  /\ use_64bit_indexing' = FALSE
  /\ triton_module' = <<>>
  /\ generator_invoked' = FALSE
  /\ launch_dimensions' = NoLaunch
  /\ llvm_module_at_call' = llvm_module
  /\ result' = NoResult
  /\ kernel_program' = NoKernel
  /\ previous' = p
  /\ UNCHANGED <<calls, llvm_module, tensor_float_32_execution, launch_vars, host_vars>>

Return == ReturnWith(previous)

\* the caller keeps the inputs, the emitted kernel and MatMulImpl's launch
\* dimensions to compare the next call with
ReturnRemembered ==
  ReturnWith([call |-> call, kernel_program |-> kernel_program,
              launch_dimensions |-> launch_dimensions])

\* tsl::enable_tensor_float_32_execution(enabled), called by any other code
\* of the process; MatMulImpl reads the flag at line 717
EnableTensorFloat32Execution(enabled) ==
  /\ tensor_float_32_execution # enabled
  /\ tensor_float_32_execution' = enabled
  /\ UNCHANGED <<pc, call, calls, use_64bit_indexing, triton_module, generator_invoked,
                 launch_dimensions, llvm_module, llvm_module_at_call, result,
                 kernel_program, previous, launch_vars, host_vars>>

Next ==
  \/ Call(Inputs)
  \/ ComplexityReject
  \/ BuildKernelSignature
  \/ MatMul
  \/ ShmemCheck
  \/ Geometry
  \/ EmitKernel
  \/ Pipeline
  \/ PipelineAbort
  \/ Return

Spec == Init /\ [][Next]_vars

\* ------------------------------------------------------------------------
\* Repeated calls: the caller compares each call with the one before it
\* while the process-wide flag may be set by other code
\* ------------------------------------------------------------------------
RepeatInputs ==
  {Input(c, Dot(80, 48, 1000, bm[1], bm[2], t, t, "F32", c.split_k, "row_major"), 98304) :
     c \in {Config(16, 16, 16, 4, 1, 1), Config(256, 256, 64, 4, 1, 1)},
     bm \in {<<"none", 1>>, <<"batch", SmallBatch>>, <<"split", SmallBatch>>},
     t \in {"F16", "F32"}}

RepeatNext ==
  \/ Call(RepeatInputs)
  \/ ComplexityReject
  \/ BuildKernelSignature
  \/ MatMul
  \/ ShmemCheck
  \/ Geometry
  \/ EmitKernel
  \/ Pipeline
  \/ PipelineAbort
  \/ ReturnRemembered
  \/ \E enabled \in BOOLEAN : EnableTensorFloat32Execution(enabled)

RepeatSpec == Init /\ [][RepeatNext]_vars

\* ------------------------------------------------------------------------
\* Element types: every combination of operand and output types
\* ------------------------------------------------------------------------
OutputTypes == {"F64", "F32", "F16", "BF16", "S32"}

TypeInputs ==
  {Input(c, Dot(80, 48, 1000, "none", 1, lt, rt, ot, c.split_k, "row_major"), 98304) :
     c \in {Config(16, 16, 16, 4, 1, 1), Config(256, 256, 64, 4, 1, 1)},
     lt \in SupportedTypes, rt \in SupportedTypes, ot \in OutputTypes}

TypeNext ==
  \/ Call(TypeInputs)
  \/ ComplexityReject
  \/ BuildKernelSignature
  \/ MatMul
  \/ ShmemCheck
  \/ Geometry
  \/ EmitKernel
  \/ Pipeline
  \/ PipelineAbort
  \/ Return

TypeSpec == Init /\ [][TypeNext]_vars

\* ------------------------------------------------------------------------
\* The emitted kernel launched with the returned LaunchDimensions
\* ------------------------------------------------------------------------
lowering_vars == <<call, calls, use_64bit_indexing, triton_module, generator_invoked,
                   launch_dimensions, llvm_module, llvm_module_at_call, result,
                   tensor_float_32_execution, kernel_program, previous>>

\* the caller launches the kernel of a successful call
Launch ==
  /\ pc = "done"
  /\ result.outcome = "returned" /\ result.status = "OK"
  /\ pc' = "launched"
  /\ program' = NoProgram
  /\ programs_run' = 0
  /\ out_stores' = {}
  /\ UNCHANGED <<lowering_vars, host_vars>>

\* the program ids a program instance may start with: any of the grid, or
\* the next one in the order of the ids
AnyProgram == ProgramIds(result.launch_dimensions)
InOrder ==
  IF programs_run < NumPrograms(result.launch_dimensions)
    THEN {ProgramOfIndex(result.launch_dimensions, programs_run)}
    ELSE {}

\* lines 543-566 and 608-618: a program instance reads its program id and
\* decodes it
StartProgram(Pids) ==
  /\ pc = "launched"
  /\ program.stage \in {"none", "stored"}
  /\ \E pid \in Pids : program' = DecodedProgram(kernel_program, pid)
  /\ UNCHANGED <<pc, programs_run, out_stores, lowering_vars, host_vars>>

\* lines 611-671: the ranges, the operands' address tiles, the accumulator
BuildTiles ==
  /\ pc = "launched"
  /\ program.stage = "decoded"
  /\ LET kp      == kernel_program
         range_m == Range(program.pid_m, kp.block_m)
         range_n == Range(program.pid_n, kp.block_n)
         range_k == Range(program.pid_k, kp.block_k)
         lhs     == LhsPtrsBase(kp, program.pid_batch, range_m, range_k)
         rhs     == RhsPtrsBase(kp, program.pid_batch, range_k, range_n)
     IN  program' =
           [stage |-> "loop", range_m |-> range_m, range_n |-> range_n,
            range_k |-> range_k, lhs_ptrs_base |-> lhs, rhs_ptrs_base |-> rhs,
            ki |-> 0, iterations |-> 0, lhs_ptrs |-> lhs, rhs_ptrs |-> rhs,
            acc |-> [l \in Lanes(kp.block_m, kp.block_n) |-> <<>>],
            lhs_loaded |-> {}, rhs_loaded |-> {}] @@ program
  /\ UNCHANGED <<pc, programs_run, out_stores, lowering_vars, host_vars>>

\* lines 673-741: one iteration of the scf.for over [0, k) by block_k * split_k
LoopIteration ==
  /\ pc = "launched"
  /\ program.stage = "loop"
  /\ program.ki < kernel_program.k
  /\ LET kp       == kernel_program
         mask     == LoadMask(kp, program.range_k, program.ki)
         lhs_tile == [l \in Lanes(kp.block_m, kp.block_k) |->
                        Load(program.lhs_ptrs[l], mask[l[2]])]
         rhs_tile == [l \in Lanes(kp.block_k, kp.block_n) |->
                        Load(program.rhs_ptrs[l], mask[l[1]])]
     IN  program' =
           [ki |-> program.ki + kp.block_k * kp.split_k,
            iterations |-> program.iterations + 1,
            acc |-> [l \in Lanes(kp.block_m, kp.block_n) |->
                       program.acc[l] \o DotLane(lhs_tile, rhs_tile, kp.block_k, l[1], l[2])],
            lhs_ptrs |-> [l \in Lanes(kp.block_m, kp.block_k) |->
                            program.lhs_ptrs[l] + PtrsInc(kp, kp.stride_lhs_k)],
            rhs_ptrs |-> [l \in Lanes(kp.block_k, kp.block_n) |->
                            program.rhs_ptrs[l] + PtrsInc(kp, kp.stride_rhs_k)],
            lhs_loaded |-> program.lhs_loaded \cup
                           {program.lhs_ptrs[l] : l \in {x \in Lanes(kp.block_m, kp.block_k) : mask[x[2]]}},
            rhs_loaded |-> program.rhs_loaded \cup
                           {program.rhs_ptrs[l] : l \in {x \in Lanes(kp.block_k, kp.block_n) : mask[x[1]]}}]
           @@ program
  /\ UNCHANGED <<pc, programs_run, out_stores, lowering_vars, host_vars>>

\* lines 743-777: the loop is over; the accumulator is stored under the mask
Store ==
  /\ pc = "launched"
  /\ program.stage = "loop"
  /\ program.ki >= kernel_program.k
  /\ LET kp       == kernel_program
         out_ptrs == OutPtrs(kp, program.pid_batch, program.pid_k,
                             program.range_m, program.range_n)
         mask     == StoreMask(kp, program.range_m, program.range_n)
     IN  out_stores' = out_stores \cup
           {[pid |-> program.pid, pid_batch |-> program.pid_batch,
             pid_k |-> program.pid_k, row |-> program.range_m[l[1]],
             col |-> program.range_n[l[2]], offset |-> out_ptrs[l],
             value |-> program.acc[l]] :
              l \in {x \in Lanes(kp.block_m, kp.block_n) : mask[x]}}
  /\ program' = [stage |-> "stored"] @@ program
  /\ programs_run' = programs_run + 1
  /\ UNCHANGED <<pc, lowering_vars, host_vars>>

\* small operations: contracting lengths around one and two steps, one or
\* two tiles along m and n, every batch mode and both output layouts
\* output layouts that put the batch or split dimension (the third from the
\* last logical dimension) second or first in minor_to_major, with extents of
\* 1 and more for m and n
OutLayouts == {"row_major", "col_major", "third_after_n", "third_minor_most"}
LayoutInputs ==
  {Input(Config(16, 16, 16, 4, 1, sk),
         Dot(mn[1], mn[2], 32, bm[1], bm[2], "F16", "F16", "F32", sk, l), 98304) :
     mn \in {<<80, 48>>, <<80, 1>>, <<1, 48>>, <<1, 1>>}, sk \in {1, 2},
     bm \in {<<"none", 1>>, <<"batch", 2>>, <<"split", 2>>}, l \in OutLayouts}
  \cup
  {Input(Config(256, 256, 64, 4, 1, 1),
         Dot(5, 3, 16, "none", 1, "F16", "F16", "F32", 1, "row_major"), 98304)}

LayoutNext ==
  \/ Call(LayoutInputs)
  \/ ComplexityReject
  \/ BuildKernelSignature
  \/ MatMul
  \/ ShmemCheck
  \/ Geometry
  \/ EmitKernel
  \/ Pipeline
  \/ PipelineAbort
  \/ Return

LayoutSpec == Init /\ [][LayoutNext]_vars

KernelKs == {1, 15, 16, 17, 31, 32}
KernelSplitKs == {1, 8, 15, 16, 17}
KernelInputs ==
  {Input(Config(16, 16, 16, 4, 1, 1),
         Dot(5, 3, k, bm[1], bm[2], "F16", "F16", "F32", 1, l), 98304) :
     k \in KernelKs, bm \in {<<"none", 1>>, <<"batch", 2>>, <<"split", 2>>},
     l \in Layouts}
  \cup
  {Input(Config(16, 16, 16, 4, 1, 2),
         Dot(5, 3, k, bm[1], bm[2], "F16", "F16", "F32", 2, l), 98304) :
     k \in KernelSplitKs, bm \in {<<"none", 1>>, <<"batch", 2>>, <<"split", 2>>},
     l \in Layouts}
  \cup
  {Input(Config(16, 16, 16, 4, 1, sk),
         Dot(mn[1], mn[2], 3, bm[1], bm[2], "F16", "F16", "F32", sk, l), 98304) :
     mn \in {<<16, 3>>, <<19, 3>>, <<5, 18>>}, sk \in {1, 2},
     bm \in {<<"none", 1>>, <<"batch", 2>>, <<"split", 2>>}, l \in Layouts}
  \cup
  {Input(Config(16, 16, 16, 4, 1, 1),
         Dot(17, 17, 3, "none", 1, "F16", "F16", "F32", 1, l), 98304) : l \in Layouts}
  \cup
  {Input(Config(256, 256, 64, 4, 1, 1),
         Dot(5, 3, 16, "none", 1, "F16", "F16", "F32", 1, "row_major"), 98304)}

KernelNext ==
  \/ Call(KernelInputs)
  \/ ComplexityReject
  \/ BuildKernelSignature
  \/ MatMul
  \/ ShmemCheck
  \/ Geometry
  \/ EmitKernel
  \/ Pipeline
  \/ PipelineAbort
  \/ Launch
  \/ StartProgram(InOrder)
  \/ BuildTiles
  \/ LoopIteration
  \/ Store

KernelSpec == Init /\ [][KernelNext]_vars

\* shapes for the decode of the fused tile id: every grid of 1 .. MaxGridM by
\* 1 .. MaxGridN tiles of 16 x 16, the last tile of each axis overhanging
MaxGridM == 20
MaxGridN == 4
SwizzleInputs ==
  {Input(Config(16, 16, 16, 4, 1, 1),
         Dot(16 * gm - 3, 16 * gn - 3, 16, "none", 1, "F16", "F16", "F32", 1, "row_major"),
         98304) :
     gm \in 1 .. MaxGridM, gn \in 1 .. MaxGridN}
  \cup
  {Input(Config(256, 256, 64, 4, 1, 1),
         Dot(5, 3, 16, "none", 1, "F16", "F16", "F32", 1, "row_major"), 98304)}

SwizzleNext ==
  \/ Call(SwizzleInputs)
  \/ ComplexityReject
  \/ BuildKernelSignature
  \/ MatMul
  \/ ShmemCheck
  \/ Geometry
  \/ EmitKernel
  \/ Pipeline
  \/ PipelineAbort
  \/ Launch
  \/ StartProgram(AnyProgram)

SwizzleSpec == Init /\ [][SwizzleNext]_vars

\* ------------------------------------------------------------------------
\* tpu_initializer_helper.cc: TryAcquireTpuLock and FindAndLoadTpuLibrary.
\* Each process runs FindAndLoadTpuLibrary once, on one thread (the static
\* absl::Mutex of line 147 orders threads of one process only), and exits
\* after the call has returned.
\* ------------------------------------------------------------------------
kernel_side_vars == <<pc, lowering_vars, launch_vars>>

\* lines 58-64
GetEnvVar(env, name) == IF env[name] = Unset THEN "" ELSE env[name]

\* absl::SimpleAtoi on the strings the environments are drawn from
SimpleAtoi(str) ==
  CASE str = "0" -> [has_int |-> TRUE, int_env |-> 0]
    [] str = "1" -> [has_int |-> TRUE, int_env |-> 1]
    [] str = "2" -> [has_int |-> TRUE, int_env |-> 2]
    [] OTHER -> [has_int |-> FALSE, int_env |-> 0]

\* lines 66-80
GetEnvBool(env, name, defval) ==
  IF env[name] = Unset THEN defval
  ELSE IF env[name] = "true" THEN TRUE
  ELSE IF env[name] = "false" THEN FALSE
  ELSE SimpleAtoi(env[name]).has_int /\ SimpleAtoi(env[name]).int_env # 0

\* lines 169-175
ChipsPerProcessBounds(env) ==
  IF GetEnvVar(env, "TPU_CHIPS_PER_PROCESS_BOUNDS") = ""
    THEN GetEnvVar(env, "TPU_CHIPS_PER_HOST_BOUNDS")
    ELSE GetEnvVar(env, "TPU_CHIPS_PER_PROCESS_BOUNDS")

\* only empty bounds take the lock
UseAllTpus_Mutant(chips_per_process_bounds) == chips_per_process_bounds = ""

\* lines 179-180
UseAllTpus(chips_per_process_bounds) ==
  chips_per_process_bounds = "" \/ chips_per_process_bounds = "2,2,1"

\* lines 150-185: what TryAcquireTpuLock decides from the environment alone;
\* "lock" when it goes on to the lock file
Overrides(env) ==
  IF GetEnvVar(env, "TPU_LOAD_LIBRARY") = "1" THEN "OK"
  ELSE IF GetEnvVar(env, "TPU_LOAD_LIBRARY") = "0" THEN "FailedPrecondition"
  ELSE IF GetEnvBool(env, "ALLOW_MULTIPLE_LIBTPU_LOAD", FALSE) THEN "OK"
  ELSE IF ~UseAllTpus(ChipsPerProcessBounds(env)) THEN "OK"
  ELSE "lock"

\* the platform registered whatever InitializeTpuStructFns returned
InitializeOn_Mutant(struct_fns) == TRUE

\* if (s.ok()), line 236
InitializeOn(struct_fns) == struct_fns = "OK"

\* what InitializeTpuStructFns may return: OK, or the error of a missing
\* symbol
StructFnsStatuses == {"OK", "NotFound"}

\* a process starts with its environment
StartProcess(Ps, Envs) ==
  /\ \E p \in Ps, e \in Envs :
       /\ tpu_procs[p].stage = "unstarted"
       /\ tpu_procs' = [tpu_procs EXCEPT ![p] =
                          [NoProc EXCEPT !.stage = "FindAndLoadTpuLibrary", !.env = e]]
  /\ UNCHANGED <<tpu_fs, peer, kernel_side_vars>>

\* lines 252-266: dlopen; without the library the call returns OK
Dlopen(p) ==
  /\ tpu_procs[p].stage = "FindAndLoadTpuLibrary"
  /\ \E library \in BOOLEAN :
       tpu_procs' = [tpu_procs EXCEPT ![p] =
         IF library
           THEN [@ EXCEPT !.library = "opened", !.stage = "TryAcquireTpuLock"]
           ELSE [@ EXCEPT !.library = "failed", !.status = "OK", !.stage = "returned"]]
  /\ UNCHANGED <<tpu_fs, peer, kernel_side_vars>>

\* lines 150-193: the overrides; without one the at-exit handler is
\* registered and the lock file comes next
CheckOverrides(p) ==
  /\ tpu_procs[p].stage = "TryAcquireTpuLock"
  /\ LET o == Overrides(tpu_procs[p].env)
     IN  tpu_procs' = [tpu_procs EXCEPT ![p] =
           IF o = "OK"
             THEN [@ EXCEPT !.lock_status = "OK", !.stage = "InitializeTpuLibrary"]
           ELSE IF o = "FailedPrecondition"
             THEN [@ EXCEPT !.lock_status = o, !.status = o, !.stage = "returned"]
           ELSE [@ EXCEPT !.atexit = TRUE, !.stage = "open"]]
  /\ UNCHANGED <<tpu_fs, peer, kernel_side_vars>>

\* lines 195-204: open(libtpu_lockfn, O_CREAT | O_RDWR, 0600) creates the
\* file when the path is free, opens the caller's own file, and fails on the
\* file of another user
OpenLockFile(p) ==
  /\ tpu_procs[p].stage = "open"
  /\ IF tpu_fs.path = 0 THEN
       /\ tpu_fs.created < MaxInodes
       /\ tpu_fs' = [tpu_fs EXCEPT !.path = tpu_fs.created + 1,
                                    !.created = tpu_fs.created + 1,
                                    !.owner[tpu_fs.created + 1] = ProcUser(p)]
       /\ tpu_procs' = [tpu_procs EXCEPT ![p].fd = tpu_fs.created + 1,
                                          ![p].stage = "lockf"]
     ELSE IF tpu_fs.owner[tpu_fs.path] = ProcUser(p) THEN
       /\ tpu_procs' = [tpu_procs EXCEPT ![p].fd = tpu_fs.path, ![p].stage = "lockf"]
       /\ UNCHANGED tpu_fs
     ELSE
       /\ tpu_procs' = [tpu_procs EXCEPT ![p].fd = -1,
                                          ![p].lock_status = "Aborted",
                                          ![p].status = "Aborted",
                                          ![p].stage = "returned"]
       /\ UNCHANGED tpu_fs
  /\ UNCHANGED <<peer, kernel_side_vars>>

\* lines 208-220: lockf(fd, F_TLOCK, 0) locks the open file, which is the
\* inode behind fd, for the process, or fails when another process holds it
\* (FindLibtpuProcess only picks the text of the Aborted message)
Lockf(p) ==
  /\ tpu_procs[p].stage = "lockf"
  /\ LET i == tpu_procs[p].fd
     IN  IF tpu_fs.lockf[i] \in {0, p}
           THEN /\ tpu_fs' = [tpu_fs EXCEPT !.lockf[i] = p]
                /\ tpu_procs' = [tpu_procs EXCEPT ![p].lock_status = "OK",
                                                   ![p].stage = "InitializeTpuLibrary"]
           ELSE /\ tpu_procs' = [tpu_procs EXCEPT ![p].lock_status = "Aborted",
                                                   ![p].status = "Aborted",
                                                   ![p].stage = "returned"]
                /\ UNCHANGED tpu_fs
  /\ UNCHANGED <<peer, kernel_side_vars>>

\* lines 226-247 and 261
InitializeTpuLibrary(p) ==
  /\ tpu_procs[p].stage = "InitializeTpuLibrary"
  /\ \E s \in StructFnsStatuses :
       tpu_procs' = [tpu_procs EXCEPT ![p].struct_fns = s,
                                      ![p].initialized = InitializeOn(s),
                                      ![p].registered = InitializeOn(s),
                                      ![p].status = s,
                                      ![p].stage = "returned"]
  /\ UNCHANGED <<tpu_fs, peer, kernel_side_vars>>

\* the process exits: the at-exit handler of lines 190-193 removes the file
\* at the path (a removal error, as on another user's file in /tmp, is
\* ignored), then the kernel drops the locks of the process
Exit(p) ==
  /\ tpu_procs[p].stage = "returned"
  /\ tpu_fs' = [tpu_fs EXCEPT
       !.path = IF /\ tpu_procs[p].atexit
                   /\ tpu_fs.path # 0
                   /\ tpu_fs.owner[tpu_fs.path] = ProcUser(p)
                  THEN 0 ELSE @,
       !.lockf = [i \in DOMAIN @ |-> IF @[i] = p THEN 0 ELSE @[i]]]
  /\ tpu_procs' = [tpu_procs EXCEPT ![p] = [NoProc EXCEPT !.stage = "exited"]]
  /\ UNCHANGED <<peer, kernel_side_vars>>

\* the environment without any override, and the environments of the
\* override checks
DefaultEnvs == {NoEnv}
OverrideEnvs ==
  {[TPU_LOAD_LIBRARY |-> l, ALLOW_MULTIPLE_LIBTPU_LOAD |-> a,
    TPU_CHIPS_PER_PROCESS_BOUNDS |-> b, TPU_CHIPS_PER_HOST_BOUNDS |-> h] :
     l \in {Unset, "1", "0", "2"},
     a \in {Unset, "true", "false", "1", "0", "yes"},
     b \in {Unset, "", "2,2,1", "1,1,1"},
     h \in {Unset, "2,2,1", "1,1,1"}}

TpuSteps ==
  \/ \E p \in TpuProcs : Dlopen(p)
  \/ \E p \in TpuProcs : CheckOverrides(p)
  \/ \E p \in TpuProcs : OpenLockFile(p)
  \/ \E p \in TpuProcs : Lockf(p)
  \/ \E p \in TpuProcs : InitializeTpuLibrary(p)
  \/ \E p \in TpuProcs : Exit(p)

\* several processes without override compete for the lock
TpuLockNext == StartProcess(TpuProcs, DefaultEnvs) \/ TpuSteps
TpuLockSpec == Init /\ [][TpuLockNext]_vars

\* one process under every environment
TpuEnvNext == StartProcess({1}, OverrideEnvs) \/ TpuSteps
TpuEnvSpec == Init /\ [][TpuEnvNext]_vars

\* ------------------------------------------------------------------------
\* Platform::EnablePeerAccess (stream_executor/platform.cc)
\* ------------------------------------------------------------------------
MaxDevices == 2
PeerStatuses == {"OK", "Internal", "Unimplemented"}

\* the keys {i, j} of the PeerAccessMap of device_count devices
PeerPairs(device_count) ==
  {<<i, j>> : i \in 0 .. device_count - 1, j \in 0 .. device_count - 1}

\* the keys in the order a std::map of pairs is iterated: by first, then by
\* second
PeerAccessOrder(device_count) ==
  [k \in 1 .. device_count * device_count |->
     <<(k - 1) \div device_count, (k - 1) % device_count>>]

\* if (!status.ok()) return status;
ReturnsOn_Mutant(status) == FALSE
ReturnsOn(status) == status # "OK"

\* GetPeerAccessMap: one entry per ordered pair of visible devices, i = j
\* included, holding CanEnablePeerAccessTo; ExecutorForDevice(..).value()
\* ends the process when a device has no executor
GetPeerAccessMap ==
  /\ peer.stage = "idle"
  /\ \E device_count \in 0 .. MaxDevices, executors \in BOOLEAN :
       \E can \in [PeerPairs(device_count) -> BOOLEAN] :
         peer' = IF device_count > 0 /\ ~executors
                 THEN [peer EXCEPT !.stage = "terminated",
                                   !.device_count = device_count]
                 ELSE [peer EXCEPT !.stage = "enabling",
                                   !.device_count = device_count,
                                   !.map = can,
                                   !.position = 1]
  /\ UNCHANGED <<kernel_side_vars, tpu_procs, tpu_fs>>

\* one iteration of the loop over the map
EnablePeerAccessTo ==
  /\ peer.stage = "enabling"
  /\ peer.position <= peer.device_count * peer.device_count
  /\ LET devices == PeerAccessOrder(peer.device_count)[peer.position]
     IN IF peer.map[devices]
        THEN \E status \in PeerStatuses :
               peer' = IF ReturnsOn(status)
                       THEN [peer EXCEPT
                               !.attempted = Append(@, [devices |-> devices,
                                                        status |-> status]),
                               !.stage = "returned",
                               !.status = status]
                       ELSE [peer EXCEPT
                               !.attempted = Append(@, [devices |-> devices,
                                                        status |-> status]),
                               !.position = @ + 1]
        ELSE peer' = [peer EXCEPT !.position = @ + 1]
  /\ UNCHANGED <<kernel_side_vars, tpu_procs, tpu_fs>>

\* return ::tsl::OkStatus() after the loop
EnablePeerAccessReturn ==
  /\ peer.stage = "enabling"
  /\ peer.position > peer.device_count * peer.device_count
  /\ peer' = [peer EXCEPT !.stage = "returned", !.status = "OK"]
  /\ UNCHANGED <<kernel_side_vars, tpu_procs, tpu_fs>>

PeerNext == GetPeerAccessMap \/ EnablePeerAccessTo \/ EnablePeerAccessReturn
PeerSpec == Init /\ [][PeerNext]_vars

\* ------------------------------------------------------------------------
\* Properties
\* ------------------------------------------------------------------------
Finished == pc \in {"done", "aborted"}
ReturnedStatus(st) == result.outcome = "returned" /\ result.status = st

\* the quantities of the call in progress, written as the claims write them
CallBatchSize == BatchSize(call.dot, call.config)
CallGridM == (MMinor(call.dot) + call.config.block_m - 1) \div call.config.block_m
CallGridN == (NSize(call.dot) + call.config.block_n - 1) \div call.config.block_n
CallHeuristic ==
  (call.config.block_m * call.config.block_n
     + (call.config.block_m + call.config.block_n) * call.config.block_k)
  \div call.config.num_warps
CallShmemEstimate ==
  ((call.config.block_m * BitWidth(call.dot.lhs_type)
      + call.config.block_n * BitWidth(call.dot.rhs_type))
   * call.config.block_k * call.config.num_stages) \div 8
\* MatMulImpl got past its precondition CHECKs and its shared-memory check
PastCeilingCheck == pc \in {"emit", "pipeline", "done", "aborted"} /\ Len(triton_module) >= 4
PastShmemCheck ==
  /\ generator_invoked
  /\ pc \in {"geometry", "emit", "pipeline", "done", "aborted"}
  /\ FailedCheck(call.dot, call.config) = ""

\* C1 (as claimed): once the grid-ceiling check has been decided for a call with
\* batch_size * grid_m * grid_n >= 65536^2, the call has returned
\* ResourceExhausted.
C1_CeilingReturnsResourceExhausted ==
  (/\ PastCeilingCheck
   /\ WideLeq(CeilingSquared, TileProduct(CallBatchSize, CallGridM, CallGridN)))
  => ReturnedStatus("ResourceExhausted")

\* C2: a call whose complexity heuristic value exceeds 9000 has returned
\* ResourceExhausted with the heuristic's message as soon as it leaves the
\* entry of TritonWrapper, with the generator not invoked and no operation
\* created; a call whose value is at most 9000 never carries that message.
C2_ComplexityRejectedFirst ==
  pc \notin {"idle", "TritonWrapper"} =>
    IF CallHeuristic > 9000
      THEN /\ pc = "done"
           /\ ReturnedStatus("ResourceExhausted")
           /\ result.message =
                <<"Tiling complexity heuristic exceeded: %d > %d", CallHeuristic, 9000>>
           /\ ~generator_invoked
           /\ triton_module = <<>>
      ELSE result.message = <<>> \/
           result.message[1] # "Tiling complexity heuristic exceeded: %d > %d"

\* the spec's rejected tiling: 256 x 256 x 64 with 4 warps
C2_Witness ==
  /\ pc = "done"
  /\ call.config.block_m = 256 /\ call.config.block_n = 256
  /\ call.config.block_k = 64 /\ call.config.num_warps = 4
  /\ CallHeuristic = 24576
  /\ ReturnedStatus("ResourceExhausted")
  /\ ~generator_invoked

\* C3: for a call of MatMul whose operation and tiling meet the preconditions,
\* once the shared-memory check is decided: an estimate above the budget has
\* returned ResourceExhausted (no abort) with MatMul having created no
\* operation, and an estimate at or below the budget has passed the check.
C3_ShmemEstimateRejected ==
  (/\ generator_invoked
   /\ pc # "shmem_check"
   /\ FailedCheck(call.dot, call.config) = "")
  => IF CallShmemEstimate > call.shared_memory_per_block_optin
       THEN /\ pc = "done"
            /\ ReturnedStatus("ResourceExhausted")
            /\ result.message[1] = "Requires too much shared memory: %d > %d"
            /\ triton_module = <<"tt.func">>
       ELSE /\ PastShmemCheck
            /\ (result.message = <<>> \/
                result.message[1] # "Requires too much shared memory: %d > %d")

\* the spec's example: 147456 bytes wanted, 98304 available
C3_Witness ==
  /\ pc = "done"
  /\ generator_invoked
  /\ CallShmemEstimate = 147456
  /\ call.shared_memory_per_block_optin = 98304
  /\ ReturnedStatus("ResourceExhausted")
  /\ triton_module = <<"tt.func">>

\* C4: a call that returned ResourceExhausted carries no LaunchDimensions and
\* has left the caller's llvm_module as it was when the call started.
C4_NoPartialProgram ==
  ReturnedStatus("ResourceExhausted") =>
    /\ result.launch_dimensions = NoLaunch
    /\ llvm_module = llvm_module_at_call

\* the failure found after lowering: the whole kernel was emitted, the
\* measured shared memory is above the limit, nothing was linked
C4_Witness ==
  /\ ReturnedStatus("ResourceExhausted")
  /\ Len(triton_module) > 4
  /\ llvm_module = llvm_module_at_call
  /\ result.launch_dimensions = NoLaunch
  /\ calls = 2 /\ Len(llvm_module) = 1

\* C5 (as claimed): every ResourceExhausted message has the metric's text, the
\* value and the limit.
C5_MessageNamesValueAndLimit ==
  ReturnedStatus("ResourceExhausted") =>
    /\ Len(result.message) = 3
    /\ result.message[2] > result.message[3]

\* the dimension roles the claim lists as structurally unsupported
StructurallyUnsupported(dot, config) ==
  \/ Len(dot.lhs_contracting_dimensions) > 1
  \/ Len(dot.rhs_contracting_dimensions) > 1
  \/ (Len(dot.lhs_batch_dimensions) > BoolInt(config.split_k > 1)
      /\ Len(dot.lhs_nc_spec) > 1)
  \/ Len(dot.out_shape) >
       2 + BoolInt(config.split_k > 1)
         + BoolInt(Len(dot.lhs_batch_dimensions) > BoolInt(config.split_k > 1))

C7_IndexWidth ==
  generator_invoked =>
    (~use_64bit_indexing <=>
       /\ WideLeq(WideProduct(call.dot.lhs_shape), Wide(2147483647))
       /\ WideLeq(WideProduct(call.dot.rhs_shape), Wide(2147483647))
       /\ WideLeq(WideMul(WideProduct(call.dot.out_shape), Wide(call.config.split_k)),
                  Wide(2147483647)))

\* a mix: the LHS has 3 * 10^9 elements, the RHS fits
C7_Witness ==
  /\ generator_invoked
  /\ use_64bit_indexing
  /\ call.dot.lhs_shape = <<30000, 100000>>
  /\ WideProduct(call.dot.lhs_shape) = WideMul(Wide(3), WideMul(Wide(1000000), Wide(1000)))
  /\ FitsInt(WideProduct(call.dot.rhs_shape))

Max(a, b) == IF a >= b THEN a ELSE b
Min(a, b) == IF a <= b THEN a ELSE b

\* C8 (as claimed): a successful call has the larger of batch_size and
\* grid_m * grid_n on grid x and the smaller on grid y.
C8_LargerOnX ==
  ReturnedStatus("OK") =>
    /\ result.launch_dimensions.grid[1] = Max(CallBatchSize, CallGridM * CallGridN)
    /\ result.launch_dimensions.grid[2] = Min(CallBatchSize, CallGridM * CallGridN)

\* C8 (amended): a successful call has batch_size on x and grid_m * grid_n on y
\* when batch_size >= 65536, and grid_m * grid_n on x and batch_size on y
\* otherwise.
C8_BatchOnXWhenLarge ==
  ReturnedStatus("OK") =>
    IF CallBatchSize >= 65536
      THEN /\ result.launch_dimensions.grid[1] = CallBatchSize
           /\ result.launch_dimensions.grid[2] = CallGridM * CallGridN
      ELSE /\ result.launch_dimensions.grid[1] = CallGridM * CallGridN
           /\ result.launch_dimensions.grid[2] = CallBatchSize

\* a small batch larger than the tile count stays on y
C8_Witness ==
  /\ ReturnedStatus("OK")
  /\ CallBatchSize < 65536
  /\ CallBatchSize > CallGridM * CallGridN
  /\ result.launch_dimensions.grid[2] = CallBatchSize

\* C9: a successful call with batch_size >= 65536 and grid_m * grid_n < 65536
\* returns the grid (batch_size, grid_m * grid_n, split_k).
C9_LargeBatchGrid ==
  (/\ ReturnedStatus("OK")
   /\ CallBatchSize >= 65536
   /\ CallGridM * CallGridN < 65536)
  => result.launch_dimensions.grid =
       <<CallBatchSize, CallGridM * CallGridN, call.config.split_k>>

\* grid_m = 5, grid_n = 3, batch_size = 70000
C9_Witness ==
  /\ ReturnedStatus("OK")
  /\ CallGridM = 5 /\ CallGridN = 3 /\ CallBatchSize = 70000
  /\ result.launch_dimensions.grid = <<70000, 15, call.config.split_k>>

\* C10 (as claimed): a successful call has grid y and grid z at most 65536.
C10_GridYZWithinCeiling ==
  ReturnedStatus("OK") =>
    /\ result.launch_dimensions.grid[2] <= 65536
    /\ result.launch_dimensions.grid[3] <= 65536

\* C11 (as claimed): a call given the inputs of the call before it emits the
\* kernel program that call emitted and computes the launch dimensions that
\* call computed.
C11_SameInputsSameKernel ==
  (/\ kernel_program # NoKernel
   /\ previous.kernel_program # NoKernel
   /\ previous.call = call)
  => /\ launch_dimensions = previous.launch_dimensions
     /\ kernel_program = previous.kernel_program

\* C14 (as claimed): the emitted kernel accumulates in f64 exactly when both
\* operands and the output are F64.
C14_F64Accumulator ==
  kernel_program # NoKernel =>
    (kernel_program.acc_ty = "f64" <=>
       /\ call.dot.lhs_type = "F64"
       /\ call.dot.rhs_type = "F64"
       /\ call.dot.out_type = "F64")

NarrowFloats == {"F16", "BF16"}
BothOperandsNarrow ==
  call.dot.lhs_type \in NarrowFloats /\ call.dot.rhs_type = call.dot.lhs_type

\* C15 (as claimed): with both operands F16 (or both BF16) the emitted kernel
\* accumulates in that type when the output is F16 or BF16, and in f32 when
\* the output is wider.
C15_NarrowAccumulation ==
  (kernel_program # NoKernel /\ BothOperandsNarrow) =>
    IF call.dot.out_type \in NarrowFloats
      THEN kernel_program.acc_ty = (IF call.dot.lhs_type = "F16" THEN "f16" ELSE "bf16")
      ELSE kernel_program.acc_ty = "f32"

\* C15 (amended): with both operands F16 (or both BF16) the loaded tiles enter
\* the dot in that type and the kernel accumulates in f32, for a narrow and
\* for a wider output alike.
C15_NarrowInputsF32Accumulation ==
  (kernel_program # NoKernel /\ BothOperandsNarrow) =>
    /\ kernel_program.dot_ty = (IF call.dot.lhs_type = "F16" THEN "f16" ELSE "bf16")
    /\ kernel_program.acc_ty = "f32"

\* F16 x F16 -> F16 lowered with an f32 accumulator
C15_Witness ==
  /\ ReturnedStatus("OK")
  /\ call.dot.lhs_type = "F16" /\ call.dot.rhs_type = "F16" /\ call.dot.out_type = "F16"
  /\ kernel_program.dot_ty = "f16"
  /\ kernel_program.acc_ty = "f32"

\* the two batch-like modes of the call in progress, as the claim words them
SplitModeActive == Len(call.dot.lhs_nc_spec) = 2
BatchModeActive ==
  Len(call.dot.lhs_batch_dimensions) - BoolInt(call.config.split_k > 1) = 1
AnalyzerAccepted == kernel_program # NoKernel
\* batch_size as the launch grid carries it
LaunchedBatchSize ==
  IF kernel_program.large_batch THEN launch_dimensions.grid[1]
  ELSE launch_dimensions.grid[2]

\* C16 (as claimed): every accepted operation has exactly one of the two
\* batch-like modes active.
C16_ExactlyOneMode ==
  AnalyzerAccepted => (SplitModeActive /\ ~BatchModeActive) \/
                      (BatchModeActive /\ ~SplitModeActive)

\* C16 (amended): every accepted operation has at most one of the two modes
\* active.  Split: the major entry of the LHS non-contracting dimension gives
\* batch_size and the LHS batch stride, the RHS batch stride is 0.  Batch: the
\* batch dimension has the same size on both operands and gives batch_size
\* and both batch strides.  Neither: batch_size is 1 and both strides are 0.
\* An operation with both active, or with batch sizes that differ, aborts in
\* MatMul and nothing is emitted.
C16_AtMostOneMode ==
  /\ AnalyzerAccepted =>
       /\ ~(SplitModeActive /\ BatchModeActive)
       /\ SplitModeActive =>
            /\ LaunchedBatchSize = call.dot.lhs_nc_spec[2].count
            /\ kernel_program.stride_batch_lhs = call.dot.lhs_nc_spec[2].stride
            /\ kernel_program.stride_batch_rhs = Wide(0)
       /\ BatchModeActive =>
            /\ LaunchedBatchSize = call.dot.lhs_batch_spec[1].count
            /\ LaunchedBatchSize = call.dot.rhs_batch_spec[1].count
            /\ kernel_program.stride_batch_lhs = call.dot.lhs_batch_spec[1].stride
            /\ kernel_program.stride_batch_rhs = call.dot.rhs_batch_spec[1].stride
       /\ (~SplitModeActive /\ ~BatchModeActive) =>
            /\ LaunchedBatchSize = 1
            /\ kernel_program.stride_batch_lhs = Wide(0)
            /\ kernel_program.stride_batch_rhs = Wide(0)
  /\ (generator_invoked /\ pc # "generator" /\ SplitModeActive /\ BatchModeActive) =>
       /\ pc = "aborted"
       /\ kernel_program = NoKernel
       /\ launch_dimensions = NoLaunch
  /\ (/\ generator_invoked /\ pc # "generator"
      /\ BatchModeActive /\ ~SplitModeActive
      /\ Len(call.dot.lhs_contracting_dimensions) = 1
      /\ call.dot.lhs_batch_spec[1].count # call.dot.rhs_batch_spec[1].count) =>
       /\ pc = "aborted"
       /\ kernel_program = NoKernel

\* an accepted operation with neither a batch dimension nor a split one
C16_Witness ==
  /\ ReturnedStatus("OK")
  /\ ~SplitModeActive /\ ~BatchModeActive
  /\ result.launch_dimensions.grid[2] = 1
  /\ kernel_program.stride_batch_lhs = Wide(0)

\* ------------------------------------------------------------------------
\* The launched kernel against the operation it was lowered from.  The
\* operation's own description gives the reference: counts and strides of
\* the iteration entries, shapes, the output layout.
\* ------------------------------------------------------------------------
LaunchFinished ==
  pc = "launched" /\ programs_run = NumPrograms(result.launch_dimensions)
InLoop == pc = "launched" /\ program.stage \in {"loop", "stored"}

OpSplitK == call.config.split_k
OpK == call.dot.lhs_shape[Len(call.dot.lhs_shape)] * OpSplitK
OpM == call.dot.lhs_nc_spec[1].count
OpN == call.dot.rhs_nc_spec[1].count
OpStep == call.config.block_k * OpSplitK
OpBatch ==
  IF Len(call.dot.lhs_nc_spec) = 2 THEN call.dot.lhs_nc_spec[2].count
  ELSE IF Len(call.dot.lhs_batch_spec) = 1 THEN call.dot.lhs_batch_spec[1].count
  ELSE 1
\* element (b, r, kidx) of the LHS buffer and (b, kidx, c) of the RHS buffer
OpLhsOffset(b, r, kidx) ==
  (IF Len(call.dot.lhs_nc_spec) = 2 THEN b * WideToInt(call.dot.lhs_nc_spec[2].stride)
   ELSE IF Len(call.dot.lhs_batch_spec) = 1
     THEN b * WideToInt(call.dot.lhs_batch_spec[1].stride)
   ELSE 0)
  + r * WideToInt(call.dot.lhs_nc_spec[1].stride)
  + kidx * WideToInt(call.dot.lhs_k_spec[1].stride)
OpRhsOffset(b, kidx, c) ==
  (IF Len(call.dot.lhs_nc_spec) = 1 /\ Len(call.dot.rhs_batch_spec) = 1
     THEN b * WideToInt(call.dot.rhs_batch_spec[1].stride)
   ELSE 0)
  + kidx * WideToInt(call.dot.rhs_k_spec[1].stride)
  + c * WideToInt(call.dot.rhs_nc_spec[1].stride)
\* the product of LHS (b, r, kidx) and RHS (b, kidx, c)
OpTerm(b, r, c, kidx) == <<OpLhsOffset(b, r, kidx), OpRhsOffset(b, kidx, c)>>

\* what the split instances stored for output element (b, r, c), and how
\* often the product t occurs in it
StoredFor(b, r, c) ==
  {rec \in out_stores : rec.pid_batch = b /\ rec.row = r /\ rec.col = c}
TermPlaces(recs) ==
  {p \in recs \X (1 .. OpK) : p[2] <= Len(p[1].value)}
Occurrences(recs, t) ==
  Cardinality({p \in TermPlaces(recs) : p[1].value[p[2]] = t})

\* C12: when the launch has finished, for every output element (b, r, c) the
\* values stored by the split_k instances hold, taken together, the product of
\* every contracting index 0 .. k-1 exactly once and nothing else; this for k
\* with residue 0, 1 and step - 1 modulo block_k * split_k.
C12_MaskedLoopIsReference ==
  LaunchFinished =>
    \A b \in 0 .. OpBatch - 1, r \in 0 .. OpM - 1, c \in 0 .. OpN - 1 :
      LET recs == StoredFor(b, r, c)
      IN  /\ Cardinality(recs) = OpSplitK
          /\ Cardinality(TermPlaces(recs)) = OpK
          /\ \A kidx \in 0 .. OpK - 1 : Occurrences(recs, OpTerm(b, r, c, kidx)) = 1

\* k = 17 with a step of 16: residue 1, two iterations, the second one masked
\* down to one index
C12_Witness ==
  /\ LaunchFinished
  /\ OpK = 17 /\ OpStep = 16 /\ OpK % OpStep = 1
  /\ kernel_program.masked_loads
  /\ \E rec \in out_stores : Len(rec.value) = 17

OpLhsElements == WideToInt(WideProduct(call.dot.lhs_shape))
OpRhsElements == WideToInt(WideProduct(call.dot.rhs_shape))
OpOutElements == WideToInt(WideProduct(call.dot.out_shape))

\* C13: every operand offset a program instance has loaded without mask and
\* every output offset the launch has stored lies in [0, element count) of its
\* buffer.
C13_AccessesInsideBuffers ==
  pc = "launched" =>
    /\ InLoop =>
         /\ \A o \in program.lhs_loaded : 0 <= o /\ o < OpLhsElements
         /\ \A o \in program.rhs_loaded : 0 <= o /\ o < OpRhsElements
    /\ \A rec \in out_stores : 0 <= rec.offset /\ rec.offset < OpOutElements

\* the second tile along m of 19 rows: its rows 19 .. 31 overhang, are loaded
\* from wrapped rows and are not stored
C13_Witness ==
  /\ pc = "launched" /\ program.stage = "stored"
  /\ OpM = 19 /\ program.pid_m = 1
  /\ \E i \in DOMAIN program.range_m : program.range_m[i] >= OpM
  /\ program.lhs_loaded # {}
  /\ Cardinality({rec \in out_stores : rec.pid = program.pid}) = 3 * OpN

\* the physical offset of an output element under the output's layout:
\* OpOutStride(i) is the stride of the dimension at position i of
\* minor_to_major
RECURSIVE OpOutStride(_)
OpOutStride(i) ==
  IF i = 1 THEN 1
  ELSE OpOutStride(i - 1) * call.dot.out_shape[call.dot.out_minor_to_major[i - 1] + 1]
OpOutDimStride(d) ==
  OpOutStride(CHOOSE i \in 1 .. Len(call.dot.out_minor_to_major) :
                call.dot.out_minor_to_major[i] = d)
OpOutOffset(s, b, r, c) ==
  LET rank == Len(call.dot.out_shape)
      split_nc == Len(call.dot.lhs_nc_spec) = 2
  IN  c * OpOutDimStride(rank - 1)
      + (IF split_nc THEN b * OpM + r ELSE r) * OpOutDimStride(rank - 2)
      + (IF ~split_nc /\ OpBatch > 1 THEN b * OpOutDimStride(rank - 3) ELSE 0)
      + (IF OpSplitK > 1 THEN s * OpOutDimStride(0) ELSE 0)

OpElements ==
  (0 .. OpSplitK - 1) \X (0 .. OpBatch - 1) \X (0 .. OpM - 1) \X (0 .. OpN - 1)

\* C19: when the launch has finished, every output element (s, b, r, c) has
\* been stored exactly once, at s * stride_out_split_k + b * stride_out_batch
\* + r * stride_out_m + c * stride_out_n, which is its place under the
\* output layout; nothing else has been stored; distinct elements have
\* distinct offsets.
C19_EachElementStoredOnce ==
  LaunchFinished =>
    /\ \A rec \in out_stores :
         /\ rec.row < OpM /\ rec.col < OpN
         /\ rec.offset =
              rec.pid_k * WideToInt(kernel_program.stride_out_split_k)
              + rec.pid_batch * WideToInt(kernel_program.stride_out_batch)
              + rec.row * WideToInt(kernel_program.stride_out_m)
              + rec.col * WideToInt(kernel_program.stride_out_n)
         /\ rec.offset = OpOutOffset(rec.pid_k, rec.pid_batch, rec.row, rec.col)
    /\ {<<rec.pid_k, rec.pid_batch, rec.row, rec.col>> : rec \in out_stores} = OpElements
    /\ Cardinality(out_stores) = Cardinality(OpElements)
    /\ Cardinality({rec.offset : rec \in out_stores}) = Cardinality(OpElements)

\* a split LHS non-contracting dimension of 2 x 19 rows under split_k = 2:
\* stride_out_batch = stride_out_m * m_minor, overhanging lanes not stored
C19_Witness ==
  /\ LaunchFinished
  /\ Len(call.dot.lhs_nc_spec) = 2 /\ OpM = 19 /\ OpSplitK = 2
  /\ kernel_program.stride_out_batch =
       WideMul(kernel_program.stride_out_m, Wide(kernel_program.m_minor))
  /\ Cardinality(out_stores) = 2 * 2 * 19 * 3

\* the products lane l has accumulated in the first it iterations
EarlierProducts(l, it) ==
  {<<program.lhs_ptrs_base[<<l[1], j>>]
       + i * OpStep * WideToInt(call.dot.lhs_k_spec[1].stride),
     program.rhs_ptrs_base[<<j, l[2]>>]
       + i * OpStep * WideToInt(call.dot.rhs_k_spec[1].stride)>> :
     <<i, j>> \in {x \in (0 .. it - 1) \X (0 .. call.config.block_k - 1) :
                    x[1] * OpStep + program.range_k[x[2]] < OpK}}

\* C20: in the reduction loop ki is iterations * block_k * split_k, the loop
\* is left after exactly ceil(k / (block_k * split_k)) iterations, the carried
\* address tiles are the base tiles plus ki times the contracting stride, and
\* the carried block_m x block_n accumulator holds the products of all
\* earlier iterations (none at the start).
C20_LoopInvariant ==
  InLoop =>
    /\ program.ki = program.iterations * OpStep
    /\ program.iterations <= (OpK + OpStep - 1) \div OpStep
    /\ (program.stage = "stored" \/ program.ki >= OpK) =>
         program.iterations = (OpK + OpStep - 1) \div OpStep
    /\ \A l \in DOMAIN program.lhs_ptrs :
         program.lhs_ptrs[l] = program.lhs_ptrs_base[l]
           + program.ki * WideToInt(call.dot.lhs_k_spec[1].stride)
    /\ \A l \in DOMAIN program.rhs_ptrs :
         program.rhs_ptrs[l] = program.rhs_ptrs_base[l]
           + program.ki * WideToInt(call.dot.rhs_k_spec[1].stride)
    /\ DOMAIN program.acc = (0 .. call.config.block_m - 1) \X (0 .. call.config.block_n - 1)
    /\ \A l \in DOMAIN program.acc :
         /\ {program.acc[l][x] : x \in 1 .. Len(program.acc[l])}
              = EarlierProducts(l, program.iterations)
         /\ Len(program.acc[l]) = Cardinality(EarlierProducts(l, program.iterations))

\* k = 34 under split_k = 2: the second and last iteration is about to start
C20_Witness ==
  /\ InLoop /\ program.stage = "loop"
  /\ OpK = 34 /\ OpStep = 32
  /\ program.iterations = 1 /\ program.ki = 32
  /\ \E l \in DOMAIN program.acc : Len(program.acc[l]) = 16

\* the launch's tile counts, from the operation and the configuration
OpGridM == (OpM + call.config.block_m - 1) \div call.config.block_m
OpGridN == (OpN + call.config.block_n - 1) \div call.config.block_n
FusedIds == 0 .. OpGridM * OpGridN - 1
\* the tile the launched kernel decodes fused id p to
DecodedTile(p) ==
  LET d == DecodedProgram(kernel_program,
                          IF kernel_program.large_batch THEN <<0, p, 0>> ELSE <<p, 0, 0>>)
  IN  <<d.pid_m, d.pid_n>>
\* C17: the decode of the fused tile id is a bijection from
\* [0, grid_m * grid_n) onto [0, grid_m) x [0, grid_n), and it is the decode
\* the claim writes out; a program instance that has decoded its id holds
\* that tile.
C17_DecodeIsBijection ==
  pc = "launched" =>
    /\ \A p \in FusedIds :
         LET group_id == p \div (8 * OpGridN)
             first_pid_m == 8 * group_id
             group_size == Min(OpGridM - first_pid_m, 8)
         IN  /\ DecodedTile(p) = <<first_pid_m + (p % group_size),
                                    (p % (8 * OpGridN)) \div group_size>>
             /\ DecodedTile(p) \in (0 .. OpGridM - 1) \X (0 .. OpGridN - 1)
    /\ \A p, q \in FusedIds : DecodedTile(p) = DecodedTile(q) => p = q
    /\ {DecodedTile(p) : p \in FusedIds} = (0 .. OpGridM - 1) \X (0 .. OpGridN - 1)
    /\ program.stage = "decoded" =>
         <<program.pid_m, program.pid_n>> = DecodedTile(program.pid_nc)

\* a program instance of the last group of 11 x 2 tiles, which has 3 rows
C17_Witness ==
  /\ pc = "launched" /\ program.stage = "decoded"
  /\ OpGridM = 11 /\ OpGridN = 2
  /\ program.pid_nc = 21 /\ program.pid_m = 8 /\ program.pid_n = 1

\* C18: the ids g * 8 * grid_n .. (g + 1) * 8 * grid_n - 1 of group g decode
\* to pid_m in [8g, min(8g + 8, grid_m)); inside a group pid_n does not
\* decrease as the id increases, and the ids of one pid_n are consecutive and
\* visit every m tile of the group.
C18_GroupsOfEightAlongM ==
  pc = "launched" =>
    /\ \A p \in FusedIds :
         LET g == p \div (8 * OpGridN)
         IN  /\ 8 * g <= DecodedTile(p)[1]
             /\ DecodedTile(p)[1] < Min(8 * g + 8, OpGridM)
    /\ \A p, q \in FusedIds :
         (p < q /\ p \div (8 * OpGridN) = q \div (8 * OpGridN)) =>
           DecodedTile(p)[2] <= DecodedTile(q)[2]
    /\ \A p \in FusedIds :
         LET g == p \div (8 * OpGridN)
             same == {q \in FusedIds : /\ q \div (8 * OpGridN) = g
                                        /\ DecodedTile(q)[2] = DecodedTile(p)[2]}
         IN  {DecodedTile(q)[1] : q \in same} = 8 * g .. Min(8 * g + 8, OpGridM) - 1

\* a program instance of the second group of 20 x 3 tiles: a full group of 8
\* rows, followed by a group of 4
C18_Witness ==
  /\ pc = "launched" /\ program.stage = "decoded"
  /\ OpGridM = 20 /\ OpGridN = 3
  /\ program.pid_nc = 24 + 9 /\ program.pid_m = 8 + 1 /\ program.pid_n = 1

\* the greatest index an unmasked lane of the emitted kernel multiplies in
\* offset computation nm, and the stride it is multiplied by
KernelMaxIndex(nm) ==
  CASE nm \in {"lhs_offset_m", "out_offset_m"} -> kernel_program.m_minor - 1
    [] nm \in {"rhs_offset_n", "out_offset_n"} -> kernel_program.n - 1
    [] nm \in {"lhs_offset_k", "rhs_off_k"} ->
         Min(kernel_program.k, kernel_program.block_k * kernel_program.split_k) - 1
    [] nm \in {"lhs_offset_batch", "rhs_offset_batch", "out_offset_batch"} ->
         BatchSize(call.dot, call.config) - 1
    [] nm = "out_offset_split_k" -> kernel_program.split_k - 1
    [] nm \in {"lhs_ptrs_inc", "rhs_ptrs_inc"} ->
         kernel_program.block_k * kernel_program.split_k
KernelStride(nm) ==
  CASE nm = "lhs_offset_m" -> kernel_program.stride_lhs_m
    [] nm \in {"lhs_offset_k", "lhs_ptrs_inc"} -> kernel_program.stride_lhs_k
    [] nm = "lhs_offset_batch" -> kernel_program.stride_batch_lhs
    [] nm \in {"rhs_off_k", "rhs_ptrs_inc"} -> kernel_program.stride_rhs_k
    [] nm = "rhs_offset_n" -> kernel_program.stride_rhs_n
    [] nm = "rhs_offset_batch" -> kernel_program.stride_batch_rhs
    [] nm = "out_offset_batch" -> kernel_program.stride_out_batch
    [] nm = "out_offset_split_k" -> kernel_program.stride_out_split_k
    [] nm = "out_offset_m" -> kernel_program.stride_out_m
    [] nm = "out_offset_n" -> kernel_program.stride_out_n
KernelEmitted == kernel_program # NoKernel

\* C21: in a kernel emitted with wide indexing every index-times-stride
\* product (operand row, column and batch offsets, the pointer increments,
\* the output batch, split, m and n offsets) has both operands of type i64,
\* so no product is formed in 32 bits and none loses its upper bits.
C21_WideOffsetsIn64Bits ==
  (KernelEmitted /\ kernel_program.int_ty = "i64") =>
    /\ Cardinality(kernel_program.offset_ops) = 12
    /\ \A op \in kernel_program.offset_ops :
         /\ op.index_ty = "i64"
         /\ op.stride_ty = "i64"
         /\ ~MulI(op.index_ty, KernelMaxIndex(op.name), KernelStride(op.name)).wrapped

\* a wide kernel in which the row offset of the last output row is past
\* 2^31 - 1
C21_Witness ==
  /\ KernelEmitted /\ kernel_program.int_ty = "i64"
  /\ pc = "pipeline"
  /\ ~FitsInt(WideMul(Wide(KernelMaxIndex("out_offset_m")), KernelStride("out_offset_m")))
  /\ \E op \in kernel_program.offset_ops : op.name = "out_offset_m" /\ op.index_ty = "i64"

\* the product offset computation nm of the emitted kernel yields for its
\* greatest unmasked index
KernelOffset(nm) ==
  LET op == CHOOSE o \in kernel_program.offset_ops : o.name = nm
  IN  MulI(op.index_ty, KernelMaxIndex(nm), KernelStride(nm))
PointerIncrements == {"lhs_ptrs_inc", "rhs_ptrs_inc"}

\* C26: in a kernel emitted with narrow indexing no offset of an unmasked
\* lane wraps: each operand row, column and batch product and each output
\* batch, split, m and n product for the greatest unmasked index fits an
\* int, so do the row-plus-column sums of the operand offset tiles, and so
\* does the pointer increment whenever the loop has a second iteration.
C26_NarrowOffsetsFitInt ==
  (KernelEmitted /\ kernel_program.int_ty = "i32") =>
    /\ \A op \in kernel_program.offset_ops :
         (op.name \notin PointerIncrements \/
          kernel_program.k > kernel_program.block_k * kernel_program.split_k) =>
           ~KernelOffset(op.name).wrapped
    /\ ~AddI(kernel_program.int_ty, KernelOffset("lhs_offset_m").value,
             KernelOffset("lhs_offset_k").value).wrapped
    /\ ~AddI(kernel_program.int_ty, KernelOffset("rhs_off_k").value,
             KernelOffset("rhs_offset_n").value).wrapped

\* a narrow kernel whose last batch lies above 2^30 elements in the output
C26_Witness ==
  /\ KernelEmitted /\ kernel_program.int_ty = "i32"
  /\ pc = "pipeline"
  /\ ~KernelOffset("out_offset_batch").wrapped
  /\ WideLess(Wide(1073741824), KernelOffset("out_offset_batch").value)

\* the output-stride post-check of lines 488-496 has failed
PostCheckFailed ==
  /\ pc = "aborted"
  /\ result.message[1] \in {"stride_out_m", "stride_out_n",
                              "stride_out_split_k", "stride_out_batch"}
\* the logical indices of the output's split and batch dimensions
SplitOrBatchOutDims ==
  (IF HaveSplitK(call.config) THEN {0} ELSE {})
  \cup (IF HaveBatch(call.dot, call.config)
          THEN {IF HaveSplitK(call.config) THEN 1 ELSE 0} ELSE {})

\* C22: the output-stride post-check fails only for an operation whose split
\* or batch output dimension is the minor-most dimension of the output
\* layout.
C22_RejectsOnlyMinorMost ==
  PostCheckFailed => call.dot.out_minor_to_major[1] \in SplitOrBatchOutDims

DotInputType(lhs_ty, rhs_ty) ==
  IF "f32" \in {lhs_ty, rhs_ty} THEN "f32"
  ELSE IF "bf16" \in {lhs_ty, rhs_ty} THEN "bf16"
  ELSE IF "f16" \in {lhs_ty, rhs_ty} THEN "f16"
  ELSE "f32"

HeuristicFailed ==
  /\ ReturnedStatus("ResourceExhausted")
  /\ result.message = <<"Tiling complexity heuristic exceeded: %d > %d", CallHeuristic, 9000>>
ShmemEstimateFailed ==
  /\ ReturnedStatus("ResourceExhausted")
  /\ result.message = <<"Requires too much shared memory: %d > %d", CallShmemEstimate,
                         call.shared_memory_per_block_optin>>
\* the grid-ceiling CHECK has just been decided: it aborted, or it passed and
\* the launch dimensions are the last thing done
CeilingJustDecided ==
  \/ pc = "emit"
  \/ pc = "aborted" /\ result.message = <<"block_count_limit">>
\* the operations of the kernel function's body emitted so far
EmittedKernelOps == SubSeq(triton_module, 2, Len(triton_module))

\* the order of the three checks: the heuristic first, the shared-memory
\* estimate only after it passed, the grid-ceiling check only after both
\* passed; a configuration violating both budgets reports the heuristic
ValidationOrder ==
  /\ (pc # "idle" /\ pc # "TritonWrapper" /\ CallHeuristic > 9000) =>
       HeuristicFailed /\ ~generator_invoked
  /\ ShmemEstimateFailed =>
       CallHeuristic <= 9000 /\ CallShmemEstimate > call.shared_memory_per_block_optin
  /\ CeilingJustDecided =>
       CallHeuristic <= 9000 /\ CallShmemEstimate <= call.shared_memory_per_block_optin
  /\ (HeuristicFailed \/ ShmemEstimateFailed) => EmittedKernelOps = <<>>

\* C24 as stated: the order above, and the grid-ceiling check too is decided
\* before any kernel operation has been emitted.
C24_ChecksBeforeAnyKernelOp ==
  /\ ValidationOrder
  /\ CeilingJustDecided => EmittedKernelOps = <<>>

\* C24 amended: the order above; the heuristic and the shared-memory estimate
\* are decided before any kernel operation has been emitted, the grid-ceiling
\* check after exactly the three program-id reads and before every other
\* kernel operation.
C24_ChecksBeforeKernelBody ==
  /\ ValidationOrder
  /\ CeilingJustDecided =>
       EmittedKernelOps = <<"tt.get_program_id", "tt.get_program_id", "tt.get_program_id">>
  /\ Len(EmittedKernelOps) > 3 =>
       /\ CallHeuristic <= 9000
       /\ CallShmemEstimate <= call.shared_memory_per_block_optin
       /\ pc \in {"pipeline", "done", "aborted"}

\* a tiling over both budgets, rejected with the heuristic's message
C24_Witness ==
  /\ Finished /\ HeuristicFailed
  /\ CallHeuristic = 24576
  /\ CallShmemEstimate = 262144 /\ call.shared_memory_per_block_optin = 98304
  /\ triton_module = <<>>

\* C25: the grid-ceiling check passes only when the true product
\* batch_size * grid_m * grid_n is below 65536^2, so lowering never returns
\* OK with both batch_size and grid_m * grid_n at or above 65536.
C25_CeilingOnTrueProduct ==
  /\ (PastCeilingCheck /\ result.message # <<"block_count_limit">>) =>
       WideLess(TileProduct(CallBatchSize, CallGridM, CallGridN),
                WideMul(Wide(65536), Wide(65536)))
  /\ ReturnedStatus("OK") =>
       ~(CallBatchSize >= 65536 /\ CallGridM * CallGridN >= 65536)

\* the live processes that have received OK from TryAcquireTpuLock
LockHolders ==
  {p \in TpuProcs : /\ tpu_procs[p].stage \notin {"unstarted", "exited"}
                     /\ tpu_procs[p].lock_status = "OK"}

\* C27: without overrides at most one live process has received OK from
\* TryAcquireTpuLock, and a process that received OK holds the lock of its
\* file until it exits.
C27_AtMostOneLockHolder ==
  /\ Cardinality(LockHolders) <= 1
  /\ \A p \in LockHolders : tpu_fs.lockf[tpu_procs[p].fd] = p

\* the settings of process p as the claim reads them
EnvLoadLibrary(p) == tpu_procs[p].env.TPU_LOAD_LIBRARY
EnvAllowMultiple(p) == tpu_procs[p].env.ALLOW_MULTIPLE_LIBTPU_LOAD \in {"true", "1"}
EnvBounds(p) ==
  LET e == tpu_procs[p].env
  IN  IF e.TPU_CHIPS_PER_PROCESS_BOUNDS \notin {Unset, ""}
        THEN e.TPU_CHIPS_PER_PROCESS_BOUNDS
      ELSE IF e.TPU_CHIPS_PER_HOST_BOUNDS = Unset THEN ""
      ELSE e.TPU_CHIPS_PER_HOST_BOUNDS
EnvOverride(p) ==
  \/ EnvLoadLibrary(p) \in {"1", "0"}
  \/ EnvAllowMultiple(p)
  \/ EnvBounds(p) \notin {"", "2,2,1"}
\* TryAcquireTpuLock of process p is past its checks of the environment
OverridesDecided(p) ==
  tpu_procs[p].stage \in {"open", "lockf", "InitializeTpuLibrary", "returned"}
  /\ tpu_procs[p].library = "opened"

\* C28: TPU_LOAD_LIBRARY=1 gives OK and =0 FailedPrecondition whatever else
\* is set; otherwise ALLOW_MULTIPLE_LIBTPU_LOAD true gives OK; otherwise
\* chips bounds (per process, per host when that is empty) that are neither
\* empty nor "2,2,1" give OK; in these cases no lock file is created or
\* locked; in every other case the lock file is opened and locked.
C28_OverridePrecedence ==
  \A p \in TpuProcs : OverridesDecided(p) =>
    /\ EnvLoadLibrary(p) = "1" => tpu_procs[p].lock_status = "OK"
    /\ EnvLoadLibrary(p) = "0" => tpu_procs[p].lock_status = "FailedPrecondition"
    /\ (EnvLoadLibrary(p) \notin {"1", "0"} /\ EnvAllowMultiple(p)) =>
         tpu_procs[p].lock_status = "OK"
    /\ (EnvLoadLibrary(p) \notin {"1", "0"} /\ ~EnvAllowMultiple(p)
          /\ EnvBounds(p) \notin {"", "2,2,1"}) =>
         tpu_procs[p].lock_status = "OK"
    /\ EnvOverride(p) =>
         /\ tpu_procs[p].fd = 0
         /\ ~tpu_procs[p].atexit
         /\ tpu_fs = NoLockFile
    /\ ~EnvOverride(p) =>
         /\ tpu_procs[p].atexit
         /\ tpu_procs[p].stage # "open" =>
              /\ tpu_procs[p].fd = tpu_fs.path
              /\ tpu_fs.path # 0
         /\ tpu_procs[p].lock_status = "OK" => tpu_fs.lockf[tpu_procs[p].fd] = p
         /\ tpu_procs[p].stage \in {"InitializeTpuLibrary", "returned"} =>
              tpu_procs[p].lock_status = "OK"

\* empty per-process bounds fall back to the per-host bounds "1,1,1": OK
\* without a lock file, although ALLOW_MULTIPLE_LIBTPU_LOAD is "false"
C28_Witness ==
  /\ OverridesDecided(1)
  /\ tpu_procs[1].env = [TPU_LOAD_LIBRARY |-> "2",
                          ALLOW_MULTIPLE_LIBTPU_LOAD |-> "false",
                          TPU_CHIPS_PER_PROCESS_BOUNDS |-> "",
                          TPU_CHIPS_PER_HOST_BOUNDS |-> "1,1,1"]
  /\ tpu_procs[1].lock_status = "OK"
  /\ tpu_procs[1].fd = 0 /\ tpu_fs = NoLockFile

\* C29: in FindAndLoadTpuLibrary the library is initialised and the platform
\* registered only after TryAcquireTpuLock returned OK in the same call, and
\* only if the struct-function initialisation succeeded; a failed lock
\* returns its error with nothing initialised or registered; a library that
\* cannot be opened returns OK without attempting the lock.
C29_InitializeOnlyWithLock ==
  \A p \in TpuProcs :
    /\ tpu_procs[p].struct_fns # "none" =>
         tpu_procs[p].lock_status = "OK" /\ tpu_procs[p].library = "opened"
    /\ (tpu_procs[p].initialized \/ tpu_procs[p].registered) =>
         /\ tpu_procs[p].lock_status = "OK"
         /\ tpu_procs[p].struct_fns = "OK"
         /\ tpu_procs[p].status = "OK"
    /\ tpu_procs[p].lock_status \in {"FailedPrecondition", "Aborted"} =>
         /\ tpu_procs[p].stage = "returned"
         /\ tpu_procs[p].status = tpu_procs[p].lock_status
         /\ tpu_procs[p].struct_fns = "none"
         /\ ~tpu_procs[p].initialized /\ ~tpu_procs[p].registered
    /\ tpu_procs[p].library = "failed" =>
         /\ tpu_procs[p].stage = "returned"
         /\ tpu_procs[p].status = "OK"
         /\ tpu_procs[p].lock_status = "none"
         /\ ~tpu_procs[p].atexit /\ tpu_procs[p].fd = 0
         /\ ~tpu_procs[p].initialized /\ ~tpu_procs[p].registered

\* the lock was taken on the lock file, the struct functions failed to
\* initialise: the error is returned and no platform is registered
C29_Witness ==
  /\ tpu_procs[1].stage = "returned"
  /\ tpu_procs[1].lock_status = "OK" /\ tpu_fs.lockf[1] = 1
  /\ tpu_procs[1].struct_fns = "NotFound" /\ tpu_procs[1].status = "NotFound"
  /\ ~tpu_procs[1].registered /\ ~tpu_procs[1].initialized

\* the keys before position whose entry is true, in iteration order
EnabledBefore(position) ==
  SelectSeq(SubSeq(PeerAccessOrder(peer.device_count), 1, position),
            LAMBDA devices : peer.map[devices])
AttemptedDevices == [k \in 1 .. Len(peer.attempted) |-> peer.attempted[k].devices]
FailedAttempts == {k \in 1 .. Len(peer.attempted) : peer.attempted[k].status # "OK"}

\* C30: Platform::EnablePeerAccess attempts exactly the ordered pairs whose
\* map entry is true, in map order; the first failing status is returned at
\* once and no later pair is attempted; pairs whose entry is false are never
\* attempted and never fail the call; OK is returned exactly when every
\* attempted pair succeeded, and then every true pair was attempted.
C30_EnablesExactlyTruePairs ==
  /\ peer.stage = "enabling" =>
       /\ AttemptedDevices = EnabledBefore(peer.position - 1)
       /\ FailedAttempts = {}
  /\ peer.stage = "returned" =>
       /\ \A k \in 1 .. Len(peer.attempted) : peer.map[peer.attempted[k].devices]
       /\ (peer.status = "OK") = (FailedAttempts = {})
       /\ peer.status = "OK" =>
            AttemptedDevices = EnabledBefore(peer.device_count * peer.device_count)
       /\ peer.status # "OK" =>
            /\ FailedAttempts = {Len(peer.attempted)}
            /\ peer.attempted[Len(peer.attempted)].status = peer.status
            /\ AttemptedDevices = EnabledBefore(peer.position)
            /\ peer.map[PeerAccessOrder(peer.device_count)[peer.position]]
  /\ peer.stage = "terminated" => peer.attempted = <<>>

\* two devices: 0 -> 1 cannot be enabled and is skipped, 1 -> 0 fails after
\* 0 -> 0 succeeded, and 1 -> 1, which could be enabled, is never attempted
C30_Witness ==
  /\ peer.stage = "returned" /\ peer.device_count = 2
  /\ peer.map[<<0, 0>>] /\ ~peer.map[<<0, 1>>]
  /\ peer.map[<<1, 0>>] /\ peer.map[<<1, 1>>]
  /\ peer.attempted = <<[devices |-> <<0, 0>>, status |-> "OK"],
                        [devices |-> <<1, 0>>, status |-> "Internal"]>>
  /\ peer.status = "Internal"
====
